---------------------------- MODULE Spec2Model ----------------------------
(***************************************************************************)
(* NutriLens backend: the mock analyzer (services/analysis.py), the        *)
(* nutrition service (services/nutrition.py), the meal routes              *)
(* (api/routes_meals.py) and the storage layer (db/*.py).                  *)
(*                                                                         *)
(* Units.  Python floats that are literals of the program are kept as      *)
(* scaled integers: confidences in hundredths (0.65 -> 65), gram macros in *)
(* tenths of a gram (4.3 g -> 43).  kcal values are integers as in the     *)
(* code.  Text is a sequence of one-character strings.                     *)
(*                                                                         *)
(* The server handles one call at a time: op/args/ret hold the last call   *)
(* (operation, arguments, outcome); the other variables are the stores and *)
(* the histories the properties speak about.                               *)
(***************************************************************************)
EXTENDS Integers, Sequences, FiniteSets, TLC

VARIABLES
    op,         \* name of the last operation called ("init" before any)
    args,       \* its arguments
    ret,        \* its outcome: a value, or a raised exception / HTTP error
    invocation, \* the call of the analyzer the last operation made, if any
    prev,       \* history: the latest analyzer invocation before the last call
    database,   \* the database: [backend, foods, meals]
    clock,      \* the server clock: the index of the current instant
    issued,     \* number of meal ids drawn so far
    mirror,     \* a database of the other backend, given the same calls
    seeders,    \* the server instances that are starting up, each in its
                \* seed_foods loop
    reported    \* history: the response bodies POST /meals has given

vars == <<op, args, ret, invocation, prev, database, clock, issued, mirror,
          seeders, reported>>

-----------------------------------------------------------------------------
(* Bounds of the model *)

\* longest image list a call is made with
MaxImages == 5

\* longest image list POST /meals/analyze is called with
MaxUploads == 4

\* number of POST /meals requests the server handles
MaxSaves == 2

-----------------------------------------------------------------------------
(* services/analysis.py *)

\* Uploaded images, named by their bytes (b"image1", ...).
Images == {"same_image", "dummy3"}

\* hashlib.md5(b).digest() of the images above, as CPython computes it.
md5_digest(b) ==
    CASE b = "same_image" ->
           <<243, 43, 203, 166, 153, 131, 104, 138,
             4, 145, 215, 223, 93, 156, 12, 197>>
      [] b = "dummy3" ->
           <<255, 220, 18, 216, 214, 1, 174, 64,
             242, 88, 172, 243, 214, 231, 225, 251>>

\* int.from_bytes(digest, byteorder='big') % n, by Horner's rule: the
\* 128-bit integer itself is never needed, only its residue.
RECURSIVE from_bytes_mod(_, _)
from_bytes_mod(digest, n) ==
    IF digest = <<>> THEN 0
    ELSE (from_bytes_mod(SubSeq(digest, 1, Len(digest) - 1), n) * 256
            + digest[Len(digest)]) % n

\* list(CANNED_FOODS.keys()): dict insertion order.
food_keys == <<"white_rice", "chicken_breast", "broccoli", "olive_oil",
               "rice_mixed">>

CANNED_FOODS(key) ==
    CASE key = "white_rice" ->
           [label |-> "white rice", label_confidence |-> 85,
            grams_estimate |-> 180, grams_range |-> [min |-> 130, max |-> 240],
            grams_confidence |-> 65,
            macros |-> [kcal |-> 234, protein_g |-> 43, carbs_g |-> 515,
                        fat_g |-> 6]]
      [] key = "chicken_breast" ->
           [label |-> "chicken breast", label_confidence |-> 88,
            grams_estimate |-> 150, grams_range |-> [min |-> 100, max |-> 200],
            grams_confidence |-> 70,
            macros |-> [kcal |-> 248, protein_g |-> 539, carbs_g |-> 0,
                        fat_g |-> 14]]
      [] key = "broccoli" ->
           [label |-> "broccoli", label_confidence |-> 80,
            grams_estimate |-> 200, grams_range |-> [min |-> 150, max |-> 250],
            grams_confidence |-> 60,
            macros |-> [kcal |-> 68, protein_g |-> 72, carbs_g |-> 112,
                        fat_g |-> 9]]
      [] key = "olive_oil" ->
           [label |-> "olive oil", label_confidence |-> 70,
            grams_estimate |-> 15, grams_range |-> [min |-> 10, max |-> 20],
            grams_confidence |-> 50,
            macros |-> [kcal |-> 135, protein_g |-> 0, carbs_g |-> 0,
                        fat_g |-> 150]]
      [] key = "rice_mixed" ->
           [label |-> "mixed grain rice", label_confidence |-> 72,
            grams_estimate |-> 200, grams_range |-> [min |-> 150, max |-> 260],
            grams_confidence |-> 55,
            macros |-> [kcal |-> 260, protein_g |-> 65, carbs_g |-> 560,
                        fat_g |-> 10]]

\* photo_count < 5
PhotoThreshold == 5
\* overall_conf = 0.65 if photo_count < 5 else 0.75 (hundredths)
LowConfidence == 65
HighConfidence == 75

\* lines 85-91: the canned food the first image's hash selects
pick_food_key_last(image_bytes) ==
    food_keys[from_bytes_mod(md5_digest(image_bytes[Len(image_bytes)]),
                             Len(food_keys)) + 1]

pick_food_key(image_bytes) ==
    food_keys[from_bytes_mod(md5_digest(image_bytes[1]), Len(food_keys)) + 1]

\* lines 94-102: AnalyzeItem built from the template
build_item(food_template) ==
    [item_id |-> "tmp-1",
     label |-> food_template.label,
     label_confidence |-> food_template.label_confidence,
     grams_estimate |-> food_template.grams_estimate,
     grams_range |-> food_template.grams_range,
     grams_confidence |-> food_template.grams_confidence,
     macros |-> food_template.macros]

\* lines 104-111 with the threshold test off by one
photo_fields_inclusive(photo_count) ==
    LET needs_more == photo_count <= PhotoThreshold
    IN  [overall_confidence |->
            IF photo_count <= PhotoThreshold THEN LowConfidence
            ELSE HighConfidence,
         needs_more_photos |-> needs_more,
         suggested_next_shots |->
            IF needs_more
            THEN <<"top_down", "lower_left_angle", "lower_right_angle">>
            ELSE <<>>]

\* lines 104-111: needs_more, suggested_shots, overall_conf
photo_fields(photo_count) ==
    LET needs_more == photo_count < PhotoThreshold
    IN  [overall_confidence |->
            IF photo_count < PhotoThreshold THEN LowConfidence
            ELSE HighConfidence,
         needs_more_photos |-> needs_more,
         suggested_next_shots |->
            IF needs_more
            THEN <<"top_down", "lower_left_angle", "lower_right_angle">>
            ELSE <<>>]

\* "oil" in food_key
has_oil(key) == key = "olive_oil"

\* the analyzer without its guard on the empty list: answers a default entry
analyze_unguarded(image_bytes, metadata) ==
    LET food_key == IF image_bytes = <<>> THEN food_keys[1]
                    ELSE pick_food_key(image_bytes)
        pf == photo_fields(Len(image_bytes))
    IN  [raised |-> "none",
         value |-> [overall_confidence |-> pf.overall_confidence,
                    needs_more_photos |-> pf.needs_more_photos,
                    suggested_next_shots |-> pf.suggested_next_shots,
                    items |-> <<build_item(CANNED_FOODS(food_key))>>,
                    warnings |-> IF has_oil(food_key)
                                 THEN <<"oil_sauce_uncertain">> ELSE <<>>]]

\* analyze_images_deterministic: the outcome is the exception raised, or the
\* AnalyzeMealResponse returned.
analyze_images_deterministic(image_bytes, metadata) ==
    IF image_bytes = <<>>
    THEN [raised |-> "ValueError", value |-> "At least one image required"]
    ELSE LET food_key == pick_food_key(image_bytes)
             pf == photo_fields(Len(image_bytes))
         IN  [raised |-> "none",
              value |-> [overall_confidence |-> pf.overall_confidence,
                         needs_more_photos |-> pf.needs_more_photos,
                         suggested_next_shots |-> pf.suggested_next_shots,
                         items |-> <<build_item(CANNED_FOODS(food_key))>>,
                         warnings |-> IF has_oil(food_key)
                                      THEN <<"oil_sauce_uncertain">>
                                      ELSE <<>>]]

-----------------------------------------------------------------------------
(* Python floats (IEEE 754 binary64, round to nearest even) *)

\* A finite non-negative float is [mant, exp]: its value is mant * 2^exp, mant
\* being its 53-bit significand (0 for 0.0).  A significand, and every exact
\* intermediate result, is written in base 2^14, least significant digit
\* first, so that no step leaves the range of the integers.  The values of the
\* program are far from the subnormal and the overflow ranges.

\* significand width of binary64
Precision == 53
\* bits per digit, and digits of a significand
LimbBits == 14
MantLimbs == 4

Pow2[n \in 0..LimbBits] == IF n = 0 THEN 1 ELSE 2 * Pow2[n - 1]
Base == Pow2[LimbBits]

digit(ds, i) == IF i \in 1..Len(ds) THEN ds[i] ELSE 0

\* the digits of a natural number
RECURSIVE limbs_of(_)
limbs_of(n) == IF n = 0 THEN <<>> ELSE <<n % Base>> \o limbs_of(n \div Base)

\* the natural number the digits write
RECURSIVE nat_of(_)
nat_of(ds) == IF ds = <<>> THEN 0 ELSE ds[1] + Base * nat_of(Tail(ds))

Reverse(sq) == [i \in 1..Len(sq) |-> sq[Len(sq) + 1 - i]]

\* number of binary digits
bit_length(ds) ==
    IF \A i \in 1..Len(ds) : ds[i] = 0 THEN 0
    ELSE LET top == CHOOSE i \in 1..Len(ds) :
                        ds[i] # 0 /\ \A j \in (i + 1)..Len(ds) : ds[j] = 0
             width == CHOOSE n \in 1..LimbBits :
                        ds[top] < Pow2[n] /\ ds[top] >= Pow2[n - 1]
         IN  (top - 1) * LimbBits + width

\* ds >> s
shift_right(ds, s) ==
    LET q == s \div LimbBits
        r == s % LimbBits
    IN  [i \in 1..(Len(ds) - q) |->
            digit(ds, i + q) \div Pow2[r]
              + (digit(ds, i + q + 1) % Pow2[r]) * Pow2[LimbBits - r]]

\* ds << s
shift_left(ds, s) ==
    LET q == s \div LimbBits
        r == s % LimbBits
    IN  [i \in 1..(Len(ds) + q + 1) |->
            (digit(ds, i - q) % Pow2[LimbBits - r]) * Pow2[r]
              + digit(ds, i - q - 1) \div Pow2[LimbBits - r]]

\* binary digit k (0 is the last one), and whether a 1 stands below it
bit(ds, k) == (digit(ds, k \div LimbBits + 1) \div Pow2[k % LimbBits]) % 2

low_nonzero(ds, k) ==
    \E i \in 1..Len(ds) :
        \/ i <= k \div LimbBits /\ ds[i] # 0
        \/ i = k \div LimbBits + 1 /\ ds[i] % Pow2[k % LimbBits] # 0

RECURSIVE add_one(_)
add_one(ds) ==
    IF ds = <<>> THEN <<1>>
    ELSE IF ds[1] < Base - 1 THEN <<ds[1] + 1>> \o Tail(ds)
    ELSE <<0>> \o add_one(Tail(ds))

fit(ds) == [i \in 1..MantLimbs |-> digit(ds, i)]

\* The float nearest to ds * 2^exp (+ something below the last digit when
\* sticky), ties to even.
round_nearest_even(ds, exp, sticky) ==
    LET n == bit_length(ds)
    IN  IF n = 0 THEN [mant |-> fit(<<>>), exp |-> 0]
        ELSE IF n <= Precision
        THEN [mant |-> fit(shift_left(ds, Precision - n)),
              exp |-> exp - (Precision - n)]
        ELSE LET s == n - Precision
                 keep == shift_right(ds, s)
                 below == sticky \/ low_nonzero(ds, s - 1)
                 up == bit(ds, s - 1) = 1 /\ (below \/ keep[1] % 2 = 1)
                 inc == add_one(keep)
             IN  IF ~up THEN [mant |-> fit(keep), exp |-> exp + s]
                 ELSE IF bit_length(inc) = Precision
                 THEN [mant |-> fit(inc), exp |-> exp + s]
                 ELSE [mant |-> fit(shift_right(inc, 1)), exp |-> exp + s + 1]

\* float(n): exact for the integers of the program
float_of_int(n) == round_nearest_even(limbs_of(n), 0, FALSE)

\* carries taken up a column of digit sums
RECURSIVE carry_up(_, _)
carry_up(cols, carry) ==
    IF cols = <<>> THEN limbs_of(carry)
    ELSE <<(cols[1] + carry) % Base>>
            \o carry_up(Tail(cols), (cols[1] + carry) \div Base)

\* ds * k for a small integer k, exactly
times_small(ds, k) == carry_up([i \in 1..Len(ds) |-> ds[i] * k], 0)

\* sum of the digit products a[i] * b[k + 1 - i], i <= upto
RECURSIVE column(_, _, _, _)
column(a, b, k, upto) ==
    IF upto = 0 THEN 0
    ELSE digit(a, upto) * digit(b, k + 1 - upto) + column(a, b, k, upto - 1)

\* a * b on significands, exactly
times(a, b) ==
    carry_up([k \in 1..(Len(a) + Len(b) - 1) |-> column(a, b, k, Len(a))], 0)

\* x * y on floats
float_mul(x, y) == round_nearest_even(times(x.mant, y.mant), x.exp + y.exp,
                                      FALSE)

\* digits computed after the point by a division
FracLimbs == 5

\* long division by a small integer d: the digits of the dividend are taken
\* most significant first, r is the remainder so far
RECURSIVE long_div(_, _, _)
long_div(msf, d, r) ==
    IF msf = <<>> THEN [digits |-> <<>>, rem |-> r]
    ELSE LET t == r * Base + msf[1]
             rest == long_div(Tail(msf), d, t % d)
         IN  [digits |-> Append(rest.digits, t \div d), rem |-> rest.rem]

\* n / d for integers n >= 0, d > 0 (true division, correctly rounded)
int_truediv(n, d) ==
    LET q == long_div([i \in 1..FracLimbs |-> 0], d, n % d)
    IN  round_nearest_even(q.digits \o limbs_of(n \div d),
                           0 - FracLimbs * LimbBits, q.rem # 0)

\* x / d for a float x and an integer d > 0
float_div_int(x, d) ==
    LET q == long_div(Reverse(x.mant) \o [i \in 1..FracLimbs |-> 0], d, 0)
    IN  round_nearest_even(q.digits, x.exp - FracLimbs * LimbBits, q.rem # 0)

\* The exact value of x * k (k a small integer), cut at the point: its
\* integer part, its first binary digit after the point and whether anything
\* follows that digit.
parts(x, k) ==
    LET sig == times_small(x.mant, k)
        s == 0 - x.exp
    IN  IF s <= 0 THEN [int |-> nat_of(shift_left(sig, 0 - s)), half |-> 0,
                        more |-> FALSE]
        ELSE [int |-> nat_of(shift_right(sig, s)), half |-> bit(sig, s - 1),
              more |-> low_nonzero(sig, s - 1)]

\* the integer nearest to x * k, ties to the even one
nearest_even(x, k) ==
    LET p == parts(x, k)
    IN  IF p.half = 1 /\ (p.more \/ p.int % 2 = 1) THEN p.int + 1 ELSE p.int

\* round(x): Python 3 rounds a float to the nearest integer, ties to even
py_round(x) == nearest_even(x, 1)

\* round(x, 1), in tenths: the decimal nearest to the exact value of x
py_round1(x) == nearest_even(x, 10)

-----------------------------------------------------------------------------
(* Python str, as the sequence of its characters *)

Uppercase == <<"A", "B", "C", "D", "E", "F", "G", "H", "I", "J", "K", "L", "M",
               "N", "O", "P", "Q", "R", "S", "T", "U", "V", "W", "X", "Y", "Z">>
Lowercase == <<"a", "b", "c", "d", "e", "f", "g", "h", "i", "j", "k", "l", "m",
               "n", "o", "p", "q", "r", "s", "t", "u", "v", "w", "x", "y", "z">>

index_of(sq, c) == CHOOSE i \in 1..Len(sq) : sq[i] = c
is_in(sq, c) == \E i \in 1..Len(sq) : sq[i] = c

\* ord(c) for the characters of the labels and of the food names
ord(c) ==
    IF is_in(Uppercase, c) THEN 64 + index_of(Uppercase, c)
    ELSE IF is_in(Lowercase, c) THEN 96 + index_of(Lowercase, c)
    ELSE CASE c = " " -> 32
           [] c = "(" -> 40
           [] c = ")" -> 41
           [] c = "/" -> 47

set_min(S) == CHOOSE x \in S : \A y \in S : x <= y
set_max(S) == CHOOSE x \in S : \A y \in S : x >= y

\* s.lower()
lower(s) ==
    [i \in 1..Len(s) |->
        IF is_in(Uppercase, s[i]) THEN Lowercase[index_of(Uppercase, s[i])]
        ELSE s[i]]

\* s.strip(): the blank is the only whitespace of the alphabet
strip(s) ==
    LET inner == {i \in 1..Len(s) : s[i] # " "}
    IN  IF inner = {} THEN <<>> ELSE SubSeq(s, set_min(inner), set_max(inner))

\* x in y, for two str
str_in(x, y) ==
    \E i \in 0..(Len(y) - Len(x)) : SubSeq(y, i + 1, i + Len(x)) = x

\* x < y, for two str: by code points, the shorter first on a common prefix
str_less(x, y) ==
    \E k \in 1..Len(y) :
        /\ k - 1 <= Len(x)
        /\ \A i \in 1..(k - 1) : x[i] = y[i]
        /\ k > Len(x) \/ ord(x[k]) < ord(y[k])

\* Python None
None == [none |-> TRUE]

-----------------------------------------------------------------------------
(* difflib, as services/nutrition.py uses it: no junk, sequences far below  *)
(* the 200 elements where the popularity heuristic starts                   *)

\* length of the common run of a[i:ahi] and b[j:bhi] (positions from 0)
RECURSIVE match_length(_, _, _, _, _, _)
match_length(a, b, i, j, ahi, bhi) ==
    IF i < ahi /\ j < bhi /\ a[i + 1] = b[j + 1]
    THEN 1 + match_length(a, b, i + 1, j + 1, ahi, bhi)
    ELSE 0

\* SequenceMatcher.find_longest_match: the longest block common to
\* a[alo:ahi] and b[blo:bhi]; of the longest, the one that starts earliest in
\* a, and of those the one that starts earliest in b
find_longest_match(a, b, alo, ahi, blo, bhi) ==
    LET blocks == {<<i, j, match_length(a, b, i, j, ahi, bhi)>> :
                        i \in alo..(ahi - 1), j \in blo..(bhi - 1)}
        bestsize == IF blocks = {} THEN 0
                    ELSE set_max({blk[3] : blk \in blocks})
        besti == set_min({blk[1] : blk \in {x \in blocks : x[3] = bestsize}})
        bestj == set_min({blk[2] : blk \in {x \in blocks :
                                        x[3] = bestsize /\ x[1] = besti}})
    IN  IF bestsize = 0 THEN [a |-> alo, b |-> blo, size |-> 0]
        ELSE [a |-> besti, b |-> bestj, size |-> bestsize]

RECURSIVE matching_size(_, _, _, _, _, _)

\* the size of the block m, the longest of a[alo:ahi] and b[blo:bhi], and of
\* the blocks to its left and to its right
size_around(a, b, alo, ahi, blo, bhi, m) ==
    IF m.size = 0 THEN 0
    ELSE m.size
        + (IF alo < m.a /\ blo < m.b
           THEN matching_size(a, b, alo, m.a, blo, m.b) ELSE 0)
        + (IF m.a + m.size < ahi /\ m.b + m.size < bhi
           THEN matching_size(a, b, m.a + m.size, ahi, m.b + m.size, bhi)
           ELSE 0)

\* SequenceMatcher.get_matching_blocks, summed: the longest block, then the
\* blocks to its left and to its right
matching_size(a, b, alo, ahi, blo, bhi) ==
    size_around(a, b, alo, ahi, blo, bhi,
                find_longest_match(a, b, alo, ahi, blo, bhi))

\* _calculate_ratio(matches, length) = 2.0 * matches / length, 1.0 for length
\* 0: kept as the fraction num/den.  The floats of two such fractions compare
\* as the fractions do, the lengths being small.
calculate_ratio(matches, length) ==
    IF length > 0 THEN [num |-> 2 * matches, den |-> length]
    ELSE [num |-> 1, den |-> 1]

ratio_less(r, s) == r.num * s.den < s.num * r.den
ratio_at_least(r, s) == r.num * s.den >= s.num * r.den

\* SequenceMatcher(None, a, b).ratio()
ratio(a, b) ==
    calculate_ratio(matching_size(a, b, 0, Len(a), 0, Len(b)), Len(a) + Len(b))

count(s, c) == Cardinality({i \in 1..Len(s) : s[i] = c})

\* the characters of S that a and b have in common, with their multiplicity
RECURSIVE common(_, _, _)
common(a, b, S) ==
    IF S = {} THEN 0
    ELSE LET c == CHOOSE x \in S : TRUE
             na == count(a, c)
             nb == count(b, c)
         IN  (IF na < nb THEN na ELSE nb) + common(a, b, S \ {c})

\* quick_ratio(): the characters in common, whatever their order
quick_ratio(a, b) ==
    calculate_ratio(common(a, b, {b[j] : j \in 1..Len(b)}), Len(a) + Len(b))

\* real_quick_ratio(): the shorter length
real_quick_ratio(a, b) ==
    calculate_ratio(IF Len(a) < Len(b) THEN Len(a) ELSE Len(b), Len(a) + Len(b))

\* (score, x) < (score', x'), as Python orders the tuples
scored_less(p, q) ==
    \/ ratio_less(p.score, q.score)
    \/ ~ratio_less(q.score, p.score) /\ str_less(p.x, q.x)

\* heapq.nlargest(n, result): the n largest, largest first
RECURSIVE nlargest(_, _)
nlargest(n, result) ==
    IF n = 0 \/ result = {} THEN <<>>
    ELSE LET top == CHOOSE p \in result :
                        \A q \in result : ~scored_less(p, q)
         IN  <<top>> \o nlargest(n - 1, result \ {top})

\* the possibilities of the scored pairs, in their order
names_of(best) == [k \in 1..Len(best) |-> best[k].x]

\* difflib.get_close_matches(word, possibilities, n, cutoff)
get_close_matches(word, possibilities, n, cutoff) ==
    names_of(nlargest(n,
        {p \in {[score |-> ratio(possibilities[i], word),
                 x |-> possibilities[i]] : i \in 1..Len(possibilities)} :
            /\ ratio_at_least(real_quick_ratio(p.x, word), cutoff)
            /\ ratio_at_least(quick_ratio(p.x, word), cutoff)
            /\ ratio_at_least(p.score, cutoff)}))

-----------------------------------------------------------------------------
(* db/seed.py and services/nutrition.py: the food tables.  The values per *)
(* 100 g are in tenths of a gram.                                         *)

\* FOOD_SEED_DATA: (food_id, name, kcal, protein_g, carbs_g, fat_g)
FOOD_SEED_DATA == <<
    <<"white_rice",
      <<"w", "h", "i", "t", "e", " ", "r", "i", "c", "e">>,
      130, 27, 287, 3>>,
    <<"brown_rice",
      <<"b", "r", "o", "w", "n", " ", "r", "i", "c", "e">>,
      123, 26, 256, 10>>,
    <<"jasmine_rice",
      <<"j", "a", "s", "m", "i", "n", "e", " ", "r", "i", "c", "e">>,
      130, 25, 288, 3>>,
    <<"basmati_rice",
      <<"b", "a", "s", "m", "a", "t", "i", " ", "r", "i", "c", "e">>,
      121, 35, 252, 4>>,
    <<"nasi_lemak_rice",
      <<"n", "a", "s", "i", " ", "l", "e", "m", "a", "k", " ", "r", "i",
        "c", "e">>,
      168, 32, 285, 50>>,
    <<"fried_rice",
      <<"f", "r", "i", "e", "d", " ", "r", "i", "c", "e">>,
      163, 30, 240, 65>>,
    <<"white_bread",
      <<"w", "h", "i", "t", "e", " ", "b", "r", "e", "a", "d">>,
      265, 90, 490, 32>>,
    <<"wholemeal_bread",
      <<"w", "h", "o", "l", "e", "m", "e", "a", "l", " ", "b", "r", "e",
        "a", "d">>,
      247, 97, 413, 34>>,
    <<"roti_canai",
      <<"r", "o", "t", "i", " ", "c", "a", "n", "a", "i">>,
      301, 72, 425, 120>>,
    <<"capati",
      <<"c", "a", "p", "a", "t", "i">>,
      237, 70, 380, 70>>,
    <<"noodles_cooked",
      <<"n", "o", "o", "d", "l", "e", "s", " ", "(", "c", "o", "o", "k",
        "e", "d", ")">>,
      138, 45, 252, 20>>,
    <<"rice_vermicelli",
      <<"r", "i", "c", "e", " ", "v", "e", "r", "m", "i", "c", "e", "l",
        "l", "i">>,
      109, 20, 240, 3>>,
    <<"oats",
      <<"o", "a", "t", "s", " ", "(", "r", "o", "l", "l", "e", "d", ")">>,
      389, 169, 663, 69>>,
    <<"chicken_breast",
      <<"c", "h", "i", "c", "k", "e", "n", " ", "b", "r", "e", "a", "s",
        "t">>,
      165, 310, 0, 36>>,
    <<"chicken_thigh",
      <<"c", "h", "i", "c", "k", "e", "n", " ", "t", "h", "i", "g", "h">>,
      209, 260, 0, 110>>,
    <<"chicken_drumstick",
      <<"c", "h", "i", "c", "k", "e", "n", " ", "d", "r", "u", "m", "s",
        "t", "i", "c", "k">>,
      172, 280, 0, 57>>,
    <<"beef_lean",
      <<"l", "e", "a", "n", " ", "b", "e", "e", "f">>,
      250, 260, 0, 150>>,
    <<"pork_lean",
      <<"l", "e", "a", "n", " ", "p", "o", "r", "k">>,
      242, 270, 0, 140>>,
    <<"lamb_lean",
      <<"l", "e", "a", "n", " ", "l", "a", "m", "b">>,
      258, 250, 0, 170>>,
    <<"salmon",
      <<"s", "a", "l", "m", "o", "n">>,
      208, 200, 0, 130>>,
    <<"tuna_canned",
      <<"t", "u", "n", "a", " ", "(", "c", "a", "n", "n", "e", "d", ")">>,
      116, 255, 0, 8>>,
    <<"prawns",
      <<"p", "r", "a", "w", "n", "s", " ", "/", " ", "s", "h", "r", "i",
        "m", "p">>,
      99, 240, 0, 3>>,
    <<"fish_white",
      <<"w", "h", "i", "t", "e", " ", "f", "i", "s", "h">>,
      105, 220, 0, 20>>,
    <<"fish_fried",
      <<"f", "r", "i", "e", "d", " ", "f", "i", "s", "h">>,
      196, 200, 50, 110>>,
    <<"squid",
      <<"s", "q", "u", "i", "d", " ", "/", " ", "s", "o", "t", "o", "n",
        "g">>,
      92, 156, 31, 14>>,
    <<"anchovies_fried",
      <<"f", "r", "i", "e", "d", " ", "a", "n", "c", "h", "o", "v", "i",
        "e", "s">>,
      216, 190, 3, 150>>,
    <<"tofu_firm",
      <<"f", "i", "r", "m", " ", "t", "o", "f", "u">>,
      76, 80, 19, 42>>,
    <<"tofu_silken",
      <<"s", "i", "l", "k", "e", "n", " ", "t", "o", "f", "u">>,
      55, 53, 20, 27>>,
    <<"tempeh",
      <<"t", "e", "m", "p", "e", "h">>,
      193, 190, 94, 110>>,
    <<"eggs_whole",
      <<"w", "h", "o", "l", "e", " ", "e", "g", "g">>,
      155, 130, 11, 110>>,
    <<"eggs_boiled",
      <<"b", "o", "i", "l", "e", "d", " ", "e", "g", "g">>,
      155, 130, 11, 110>>,
    <<"dhal",
      <<"d", "h", "a", "l", " ", "/", " ", "l", "e", "n", "t", "i", "l",
        "s">>,
      116, 90, 200, 4>>,
    <<"broccoli",
      <<"b", "r", "o", "c", "c", "o", "l", "i">>,
      34, 28, 66, 4>>,
    <<"spinach",
      <<"s", "p", "i", "n", "a", "c", "h">>,
      23, 29, 36, 4>>,
    <<"kangkung",
      <<"k", "a", "n", "g", "k", "u", "n", "g", " ", "/", " ", "w", "a",
        "t", "e", "r", " ", "s", "p", "i", "n", "a", "c", "h">>,
      19, 26, 31, 2>>,
    <<"cabbage",
      <<"c", "a", "b", "b", "a", "g", "e">>,
      25, 13, 58, 1>>,
    <<"cauliflower",
      <<"c", "a", "u", "l", "i", "f", "l", "o", "w", "e", "r">>,
      25, 19, 50, 3>>,
    <<"carrot",
      <<"c", "a", "r", "r", "o", "t">>,
      41, 9, 96, 2>>,
    <<"cucumber",
      <<"c", "u", "c", "u", "m", "b", "e", "r">>,
      16, 7, 36, 1>>,
    <<"tomato",
      <<"t", "o", "m", "a", "t", "o">>,
      18, 9, 39, 2>>,
    <<"corn_sweet",
      <<"s", "w", "e", "e", "t", " ", "c", "o", "r", "n">>,
      86, 32, 190, 12>>,
    <<"long_bean",
      <<"l", "o", "n", "g", " ", "b", "e", "a", "n", " ", "/", " ", "k",
        "a", "c", "a", "n", "g", " ", "p", "a", "n", "j", "a", "n", "g">>,
      47, 28, 84, 4>>,
    <<"eggplant",
      <<"e", "g", "g", "p", "l", "a", "n", "t", " ", "/", " ", "b", "r",
        "i", "n", "j", "a", "l">>,
      25, 10, 59, 2>>,
    <<"banana",
      <<"b", "a", "n", "a", "n", "a">>,
      89, 11, 228, 3>>,
    <<"apple",
      <<"a", "p", "p", "l", "e">>,
      52, 3, 138, 2>>,
    <<"mango",
      <<"m", "a", "n", "g", "o">>,
      60, 8, 150, 4>>,
    <<"papaya",
      <<"p", "a", "p", "a", "y", "a">>,
      43, 5, 108, 3>>,
    <<"watermelon",
      <<"w", "a", "t", "e", "r", "m", "e", "l", "o", "n">>,
      30, 6, 76, 2>>,
    <<"olive_oil",
      <<"o", "l", "i", "v", "e", " ", "o", "i", "l">>,
      884, 0, 0, 1000>>,
    <<"coconut_oil",
      <<"c", "o", "c", "o", "n", "u", "t", " ", "o", "i", "l">>,
      862, 0, 0, 1000>>,
    <<"coconut_milk",
      <<"c", "o", "c", "o", "n", "u", "t", " ", "m", "i", "l", "k">>,
      197, 23, 28, 210>>,
    <<"butter",
      <<"b", "u", "t", "t", "e", "r">>,
      717, 9, 1, 810>>,
    <<"sambal",
      <<"s", "a", "m", "b", "a", "l">>,
      120, 20, 80, 90>>,
    <<"soy_sauce",
      <<"s", "o", "y", " ", "s", "a", "u", "c", "e">>,
      53, 51, 49, 6>>,
    <<"peanut_sauce",
      <<"p", "e", "a", "n", "u", "t", " ", "s", "a", "u", "c", "e">>,
      220, 80, 140, 170>> >>

\* the food_ids of the seed data, and of the food seeded later, in the order
\* of the document ids (byte order)
DocumentIdOrder == <<
    "anchovies_fried", "apple", "banana", "basmati_rice", "beef_lean",
    "broccoli", "brown_rice", "butter", "cabbage", "capati", "carrot",
    "cauliflower", "chicken_breast", "chicken_drumstick", "chicken_thigh",
    "coconut_milk", "coconut_oil", "corn_sweet", "cucumber", "dhal",
    "eggplant", "eggs_boiled", "eggs_whole", "fish_fried", "fish_white",
    "fried_rice", "jasmine_rice", "kangkung", "lamb_lean", "long_bean",
    "mango", "nasi_lemak_rice", "noodles_cooked", "oats", "olive_oil",
    "papaya", "peanut_sauce", "pizza", "pork_lean", "prawns", "rice_vermicelli",
    "roti_canai", "salmon", "sambal", "soy_sauce", "spinach", "squid",
    "tempeh", "tofu_firm", "tofu_silken", "tomato", "tuna_canned",
    "watermelon", "white_bread", "white_rice", "wholemeal_bread" >>

\* NUTRITION_DB: the keys with their food dicts
NUTRITION_DB == <<
    <<<<"w", "h", "i", "t", "e", " ", "r", "i", "c", "e">>,
      [food_id |-> "white_rice",
       name |-> <<"w", "h", "i", "t", "e", " ", "r", "i", "c", "e">>,
       kcal_per_100g |-> 130, protein_g_per_100g |-> 27,
       carbs_g_per_100g |-> 287, fat_g_per_100g |-> 3]>>,
    <<<<"c", "h", "i", "c", "k", "e", "n", " ", "b", "r", "e", "a", "s",
      "t">>,
      [food_id |-> "chicken_breast",
       name |-> <<"c", "h", "i", "c", "k", "e", "n", " ", "b", "r", "e", "a",
               "s", "t">>,
       kcal_per_100g |-> 165, protein_g_per_100g |-> 360,
       carbs_g_per_100g |-> 0, fat_g_per_100g |-> 9]>>,
    <<<<"b", "r", "o", "c", "c", "o", "l", "i">>,
      [food_id |-> "broccoli",
       name |-> <<"b", "r", "o", "c", "c", "o", "l", "i">>,
       kcal_per_100g |-> 34, protein_g_per_100g |-> 36,
       carbs_g_per_100g |-> 56, fat_g_per_100g |-> 4]>>,
    <<<<"o", "l", "i", "v", "e", " ", "o", "i", "l">>,
      [food_id |-> "olive_oil",
       name |-> <<"o", "l", "i", "v", "e", " ", "o", "i", "l">>,
       kcal_per_100g |-> 884, protein_g_per_100g |-> 0,
       carbs_g_per_100g |-> 0, fat_g_per_100g |-> 1000]>>,
    <<<<"m", "i", "x", "e", "d", " ", "g", "r", "a", "i", "n", " ", "r", "i",
      "c", "e">>,
      [food_id |-> "brown_rice",
       name |-> <<"b", "r", "o", "w", "n", " ", "r", "i", "c", "e">>,
       kcal_per_100g |-> 123, protein_g_per_100g |-> 26,
       carbs_g_per_100g |-> 256, fat_g_per_100g |-> 10]>> >>

\* _seed_data() of main.py: the rows as food dicts
_seed_data ==
    [i \in 1..Len(FOOD_SEED_DATA) |->
        [food_id |-> FOOD_SEED_DATA[i][1],
         name |-> FOOD_SEED_DATA[i][2],
         kcal_per_100g |-> FOOD_SEED_DATA[i][3],
         protein_g_per_100g |-> FOOD_SEED_DATA[i][4],
         carbs_g_per_100g |-> FOOD_SEED_DATA[i][5],
         fat_g_per_100g |-> FOOD_SEED_DATA[i][6]]]

-----------------------------------------------------------------------------
(* db/db_factory.py, db/sqlite_db_cloud.py, db/firestore_db.py: the foods *)

\* A database handle is [backend, foods, meals]: foods are the stored food
\* dicts in the order of their insertion, meals the stored meals likewise.

Environments == {"development", "production"}

\* get_database(): ENVIRONMENT=development is SQLite, anything else Firestore
get_database(environment) ==
    IF environment = "development" THEN "sqlite" ELSE "firestore"

\* os.getenv("ENVIRONMENT", "production")
DefaultEnvironment == "production"

\* A Firestore query without an order streams the documents by document id;
\* the food documents are named by their food_id.
by_document_id(foods) ==
    LET present == SelectSeq(DocumentIdOrder,
                             LAMBDA id : \E i \in 1..Len(foods) :
                                            foods[i].food_id = id)
    IN  [k \in 1..Len(present) |->
            foods[CHOOSE i \in 1..Len(foods) : foods[i].food_id = present[k]]]

\* {"id": d.id, **d.to_dict()}
with_id(food) ==
    [id |-> food.food_id,
     food_id |-> food.food_id,
     name |-> food.name,
     kcal_per_100g |-> food.kcal_per_100g,
     protein_g_per_100g |-> food.protein_g_per_100g,
     carbs_g_per_100g |-> food.carbs_g_per_100g,
     fat_g_per_100g |-> food.fat_g_per_100g]

\* a seed_foods that stores every food of the list
seed_foods_all(stored, foods) ==
    [foods |-> stored \o foods, inserted |-> Len(foods)]

\* db.seed_foods(foods): the stored foods after the call, and the count
\* returned; a food whose food_id is stored already, or was inserted earlier
\* in the loop, is skipped
seed_foods(stored, foods) ==
    LET absent == {k \in 1..Len(foods) :
                    /\ \A i \in 1..Len(stored) :
                            stored[i].food_id # foods[k].food_id
                    /\ \A j \in 1..(k - 1) :
                            foods[j].food_id # foods[k].food_id}
        nth(n) == CHOOSE k \in absent :
                    Cardinality({j \in absent : j <= k}) = n
    IN  [foods |-> stored \o [n \in 1..Cardinality(absent) |-> foods[nth(n)]],
         inserted |-> Cardinality(absent)]

\* db.get_all_foods(): SELECT * FROM foods reads the rows in the order of
\* their insertion; collection.stream() reads the documents by id
get_all_foods(db) ==
    IF db.backend = "sqlite" THEN db.foods
    ELSE LET docs == by_document_id(db.foods)
         IN  [k \in 1..Len(docs) |-> with_id(docs[k])]

\* db.get_food_count()
get_food_count(db) == Len(db.foods)

\* db.get_food_by_id(food_id): the food stored under the id, or None
get_food_by_id(db, food_id) ==
    LET rows == get_all_foods(db)
        hits == {i \in 1..Len(rows) : rows[i].food_id = food_id}
    IN  IF hits = {} THEN None ELSE rows[set_min(hits)]

\* db.get_food_by_name(name): SQLite compares LOWER(name) with
\* LOWER(name.strip()); Firestore compares the stored name with
\* name.lower().strip(); each returns the first food found, or None
get_food_by_name(db, name) ==
    LET rows == get_all_foods(db)
        hits == {i \in 1..Len(rows) :
                    IF db.backend = "sqlite"
                    THEN lower(rows[i].name) = lower(strip(name))
                    ELSE rows[i].name = strip(lower(name))}
    IN  IF hits = {} THEN None ELSE rows[set_min(hits)]

-----------------------------------------------------------------------------
(* services/nutrition.py *)

\* name.lower() alone
_normalize_unstripped(name) == lower(name)

\* _normalize(name)
_normalize(name) == strip(lower(name))

\* a cutoff below the one of the code
LowCutoff == [num |-> 45, den |-> 100]

\* a cutoff above the one of the code
HighCutoff == [num |-> 56, den |-> 100]

\* cutoff=0.55
Cutoff == [num |-> 55, den |-> 100]

\* return next(f for f in all_foods if _normalize(f["name"]) == matches[0]),
\* or None without a match
first_named(all_foods, matches) ==
    IF matches = <<>> THEN None
    ELSE all_foods[set_min({i \in 1..Len(all_foods) :
                                _normalize(all_foods[i].name) = matches[1]})]

\* the names the similarity search is given
normalized_names(all_foods) ==
    [i \in 1..Len(all_foods) |-> _normalize(all_foods[i].name)]

\* get_food_fuzzy with the substring scan before the exact lookup
get_food_fuzzy_scan_first(db, label) ==
    LET norm_label == _normalize(label)
        all_foods == get_all_foods(db)
        partial == {i \in 1..Len(all_foods) :
                      \/ str_in(norm_label, _normalize(all_foods[i].name))
                      \/ str_in(_normalize(all_foods[i].name), norm_label)}
    IN  IF partial # {} THEN all_foods[set_min(partial)]
        ELSE get_food_by_name(db, norm_label)

\* the tiers with a substring scan that keeps the last food that qualifies
tiers_last_partial(norm_label, food, all_foods) ==
    LET partial == {i \in 1..Len(all_foods) :
                      \/ str_in(norm_label, _normalize(all_foods[i].name))
                      \/ str_in(_normalize(all_foods[i].name), norm_label)}
    IN  IF food # None THEN food
        ELSE IF partial # {}
        THEN all_foods[CHOOSE i \in partial : \A j \in partial : j <= i]
        ELSE first_named(all_foods,
                         get_close_matches(norm_label,
                                           normalized_names(all_foods), 1,
                                           Cutoff))

\* the tiers of get_food_fuzzy: food is what the exact lookup gave, all_foods
\* what get_all_foods gave
tiers(norm_label, food, all_foods) ==
    LET partial == {i \in 1..Len(all_foods) :
                      \/ str_in(norm_label, _normalize(all_foods[i].name))
                      \/ str_in(_normalize(all_foods[i].name), norm_label)}
    IN  IF food # None THEN food
        ELSE IF partial # {} THEN all_foods[set_min(partial)]
        ELSE first_named(all_foods,
                         get_close_matches(norm_label,
                                           normalized_names(all_foods), 1,
                                           Cutoff))

\* get_food_fuzzy(db, label): the food dict found, or None
get_food_fuzzy(db, label) ==
    tiers(_normalize(label), get_food_by_name(db, _normalize(label)),
          get_all_foods(db))

\* the float a literal with one decimal denotes, from its tenths
float_of_tenths(t) == int_truediv(t, 10)

\* x + y on floats
float_add(x, y) ==
    IF bit_length(x.mant) = 0 THEN y
    ELSE IF bit_length(y.mant) = 0 THEN x
    ELSE LET e == IF x.exp < y.exp THEN x.exp ELSE y.exp
             xs == shift_left(x.mant, x.exp - e)
             ys == shift_left(y.mant, y.exp - e)
             n == IF Len(xs) > Len(ys) THEN Len(xs) ELSE Len(ys)
         IN  round_nearest_even(
                 carry_up([i \in 1..n |-> digit(xs, i) + digit(ys, i)], 0),
                 e, FALSE)

\* compute_macros_from_food(food, grams)
compute_macros_from_food(food, grams) ==
    LET factor == int_truediv(grams, 100)
    IN  [kcal |-> py_round(float_mul(float_of_int(food.kcal_per_100g),
                                     factor)),
         protein_g |-> py_round1(float_mul(
                            float_of_tenths(food.protein_g_per_100g), factor)),
         carbs_g |-> py_round1(float_mul(
                            float_of_tenths(food.carbs_g_per_100g), factor)),
         fat_g |-> py_round1(float_mul(
                            float_of_tenths(food.fat_g_per_100g), factor))]

\* NUTRITION_DB.get(key)
NUTRITION_DB_get(key) ==
    IF \E i \in 1..Len(NUTRITION_DB) : NUTRITION_DB[i][1] = key
    THEN NUTRITION_DB[CHOOSE i \in 1..Len(NUTRITION_DB) :
                          NUTRITION_DB[i][1] = key][2]
    ELSE None

\* round(grams * per_100g / 100, 1) for a float per_100g, in tenths
scaled_tenths(grams, per_100g) ==
    py_round1(float_div_int(float_mul(float_of_int(grams),
                                      float_of_tenths(per_100g)), 100))

\* compute_macros(food_name, grams): the macros, or ValueError
compute_macros(food_name, grams) ==
    LET food_data == NUTRITION_DB_get(lower(food_name))
    IN  IF food_data = None
        THEN [raised |-> "ValueError", value |-> "not found in nutrition DB"]
        ELSE [raised |-> "none",
              value |->
                [kcal |-> py_round(int_truediv(
                              grams * food_data.kcal_per_100g, 100)),
                 protein_g |-> scaled_tenths(grams,
                                             food_data.protein_g_per_100g),
                 carbs_g |-> scaled_tenths(grams, food_data.carbs_g_per_100g),
                 fat_g |-> scaled_tenths(grams, food_data.fat_g_per_100g)]]

\* total += x over the list xs, from 0.0, in the order of the loop
RECURSIVE float_sum(_)
float_sum(xs) ==
    IF xs = <<>> THEN float_of_int(0)
    ELSE float_add(float_sum(SubSeq(xs, 1, Len(xs) - 1)), xs[Len(xs)])

\* total_kcal += x over the list xs, from 0
RECURSIVE int_sum(_)
int_sum(xs) ==
    IF xs = <<>> THEN 0
    ELSE int_sum(SubSeq(xs, 1, Len(xs) - 1)) + xs[Len(xs)]

\* the totals of the macros compute_macros gave the items, the kcal being
\* kcal: the totals, or the ValueError of the first item refused
totals(macros, kcal) ==
    LET failed == {k \in 1..Len(macros) : macros[k].raised # "none"}
        total(field) == float_sum([k \in 1..Len(macros) |->
                                    float_of_tenths(macros[k].value[field])])
    IN  IF failed # {} THEN macros[set_min(failed)]
        ELSE [raised |-> "none",
              value |-> [kcal |-> kcal,
                         protein_g |-> py_round1(total("protein_g")),
                         carbs_g |-> py_round1(total("carbs_g")),
                         fat_g |-> py_round1(total("fat_g"))]]

\* total_kcal += macros.kcal over the items
total_kcal(macros) ==
    int_sum([k \in 1..Len(macros) |-> macros[k].value.kcal])

\* the kcal of the items summed before any rounding, then rounded
kcal_round_last(items) ==
    py_round(int_truediv(
        int_sum([k \in 1..Len(items) |->
                    items[k].grams
                    * NUTRITION_DB_get(lower(items[k].label)).kcal_per_100g]),
        100))

\* macros = compute_macros(item["label"], item["grams"]) for each item
item_macros(items) ==
    [k \in 1..Len(items) |-> compute_macros(items[k].label, items[k].grams)]

\* the loop of compute_total_macros on the macros of the items
sum_macros(macros) == totals(macros, total_kcal(macros))

\* compute_total_macros rounding the kcal once, after the sum
compute_total_macros_round_last(items) ==
    totals(item_macros(items), kcal_round_last(items))

\* compute_total_macros(items): the totals, or the ValueError of the first
\* item compute_macros refuses
compute_total_macros(items) == sum_macros(item_macros(items))

-----------------------------------------------------------------------------
(* api/routes_meals.py: POST /meals/analyze *)

\* if len(images) < 3
MinPhotos == 3

\* The metadata form field: absent (None) or a text.
NoMetadata == "None"
MetadataTexts == {NoMetadata, "", "{\"capture\": {\"photo_count\": 3}}",
                  "{\"platform\": "}

\* json.loads on the texts above: the parsed value, or JSONDecodeError.
json_loads(text) ==
    CASE text = "{\"capture\": {\"photo_count\": 3}}" ->
           [raised |-> "none", value |-> [capture |-> [photo_count |-> 3]]]
      [] OTHER -> [raised |-> "JSONDecodeError", value |-> <<>>]

\* Python truthiness of Optional[str]: None and "" are falsy.
truthy(text) == text # NoMetadata /\ text # ""

\* lines 46-51: meta_dict
parse_metadata(metadata) ==
    IF truthy(metadata)
    THEN LET parsed == json_loads(metadata)
         IN  IF parsed.raised = "none" THEN parsed.value ELSE <<>>
    ELSE <<>>

\* NoCall: the handler did not reach the analyzer
NoCall == [image_bytes |-> <<>>, metadata |-> <<>>, answered |-> FALSE]

\* lines 41-44 with the minimum test dropped
too_few_only_empty(images) == images = <<>>

\* lines 41-44: the request is refused before anything else is done
too_few(images) == images = <<>> \/ Len(images) < MinPhotos

\* lines 55-60: the call of the analyzer and the response made of its outcome
respond(image_bytes, meta_dict) ==
    LET analysis == analyze_images_deterministic(image_bytes, meta_dict)
    IN  [status |-> IF analysis.raised = "none" THEN 200 ELSE 500,
         body |-> IF analysis.raised = "none" THEN analysis.value
                  ELSE "Analysis failed",
         call |-> [image_bytes |-> image_bytes, metadata |-> meta_dict,
                   answered |-> analysis.raised = "none"]]

\* the handler with malformed metadata refused
analyze_meal_strict(images, metadata) ==
    IF too_few(images)
    THEN [status |-> 400, body |-> "Minimum 3 photos required",
          call |-> NoCall]
    ELSE IF truthy(metadata) /\ json_loads(metadata).raised # "none"
    THEN [status |-> 400, body |-> "Invalid metadata", call |-> NoCall]
    ELSE respond(images, parse_metadata(metadata))

\* analyze_meal: the HTTP response (status, body) and the call of the analyzer
\* the handler made.  image_bytes = [await img.read() ...] is the uploaded
\* bytes themselves.
analyze_meal(images, metadata) ==
    IF too_few(images)
    THEN [status |-> 400,
          body |-> IF images = <<>> THEN "At least one image is required"
                   ELSE "Minimum 3 photos required",
          call |-> NoCall]
    ELSE respond(images, parse_metadata(metadata))

-----------------------------------------------------------------------------
(* main.py: startup *)

\* lifespan: the foods are seeded when the store holds none
lifespan(db) ==
    IF get_food_count(db) = 0
    THEN [backend |-> db.backend,
          foods |-> seed_foods(db.foods, _seed_data).foods,
          meals |-> db.meals]
    ELSE db

\* the database of a server that has started on an empty store
started(environment) ==
    lifespan([backend |-> get_database(environment), foods |-> <<>>,
              meals |-> <<>>])

-----------------------------------------------------------------------------
(* Inputs of the nutrition service *)

\* labels the resolver is asked for: exact names (as typed, or with capitals
\* and blanks), parts of names, names within a longer text, misspellings,
\* a label at similarity 0.55 exactly, unknown dishes, the empty label and
\* a label of blanks
Labels == {
    <<" ", " ">>,
    <<"w", "h", "i", "t", "e", " ", "r", "i", "c", "e">>,
    <<"W", "h", "i", "t", "e", " ", "R", "i", "c", "e", " ">>,
    <<"c", "h", "i", "c", "k", "e", "n", " ", "b", "r", "e", "a", "s",
      "t">>,
    <<"S", "p", "i", "n", "a", "c", "h">>,
    <<"r", "i", "c", "e">>,
    <<"g", "r", "i", "l", "l", "e", "d", " ", "s", "a", "l", "m", "o", "n",
      " ", "f", "i", "l", "l", "e", "t">>,
    <<"b", "r", "o", "c", "o", "l", "i">>,
    <<"k", "a", "n", "g", "k", "u", "n", "g", " ", "/", " ", "q", "q", "q",
      "q", "q">>,
    <<"t", "o", "t", "a", "l", "l", "y", " ", "u", "n", "k", "n", "o", "w",
      "n", " ", "d", "i", "s", "h">>,
    <<"p", "i", "z", "z", "a">>,
    <<"a">>,
    <<>> }

\* gram quantities
Grams == {0, 10, 150, 180, 218}

\* names compute_macros is asked for
FoodNames == {
    <<"w", "h", "i", "t", "e", " ", "r", "i", "c", "e">>,
    <<"c", "h", "i", "c", "k", "e", "n", " ", "b", "r", "e", "a", "s",
      "t">>,
    <<"b", "r", "o", "c", "c", "o", "l", "i">>,
    <<"o", "l", "i", "v", "e", " ", "o", "i", "l">>,
    <<"m", "i", "x", "e", "d", " ", "g", "r", "a", "i", "n", " ", "r", "i",
      "c", "e">>,
    <<"W", "h", "i", "t", "e", " ", "R", "i", "c", "e">>,
    <<"u", "n", "k", "n", "o", "w", "n", " ", "f", "o", "o", "d">> }

\* item lists compute_total_macros is asked for
TotalItemLists == {
    <<[label |-> <<"w", "h", "i", "t", "e", " ", "r", "i", "c", "e">>,
       grams |-> 180],
      [label |-> <<"c", "h", "i", "c", "k", "e", "n", " ", "b", "r", "e",
                   "a", "s", "t">>, grams |-> 150]>>,
    <<[label |-> <<"c", "h", "i", "c", "k", "e", "n", " ", "b", "r", "e",
                   "a", "s", "t">>, grams |-> 150],
      [label |-> <<"c", "h", "i", "c", "k", "e", "n", " ", "b", "r", "e",
                   "a", "s", "t">>, grams |-> 150]>>,
    <<[label |-> <<"w", "h", "i", "t", "e", " ", "r", "i", "c", "e">>,
       grams |-> 180],
      [label |-> <<"u", "n", "k", "n", "o", "w", "n", " ", "f", "o", "o",
                   "d">>, grams |-> 10]>>,
    <<>> }

\* the elements of a list
elements(sq) == {sq[i] : i \in 1..Len(sq)}

\* a food list seeded into a running store, after meals were saved: a food
\* named as a label that resolved to nothing before
LaterFoods ==
    <<[food_id |-> "pizza", name |-> <<"p", "i", "z", "z", "a">>,
       kcal_per_100g |-> 270, protein_g_per_100g |-> 110,
       carbs_g_per_100g |-> 330, fat_g_per_100g |-> 100]>>

\* the food stores of the started servers, as started and with the later
\* foods
Stores ==
    UNION {{[backend |-> started(environment).backend,
             foods |-> started(environment).foods],
            [backend |-> started(environment).backend,
             foods |-> seed_foods(started(environment).foods,
                                  LaterFoods).foods]} :
           environment \in Environments}

\* the food store of a database
store(db) == [backend |-> db.backend, foods |-> db.foods]

\* with_store(s): the database handle on the store s
with_store(s) == [backend |-> s.backend, foods |-> s.foods, meals |-> <<>>]

\* The answers of the nutrition service for the inputs above, each computed
\* once by the operator that models the function.
get_food_fuzzy_table ==
    [s \in Stores |->
        [label \in Labels |-> get_food_fuzzy(with_store(s), label)]]

StartedFoods ==
    UNION {elements(get_all_foods(with_store(s))) : s \in Stores}

compute_macros_from_food_table ==
    [food \in StartedFoods |->
        [grams \in Grams |-> compute_macros_from_food(food, grams)]]

compute_macros_table ==
    [food_name \in FoodNames |->
        [grams \in Grams |-> compute_macros(food_name, grams)]]

compute_total_macros_table ==
    [items \in TotalItemLists |-> compute_total_macros(items)]

-----------------------------------------------------------------------------
(* db: the meals; api/routes_meals.py: POST /meals *)

\* A datetime is [date, time, tz], tz being "" for a naive one.  The text
\* isoformat() gives is kept as <<date, "T", time, tz>>: the date is its first
\* ten characters.
isoformat(dt) == <<dt.date, "T", dt.time, dt.tz>>

\* timestamp[:10]
first_ten(timestamp) == timestamp[1]

\* request.notes when the client sends none
NoNotes == "None"

\* notes or ""
notes_or_empty(notes) == IF notes = NoNotes THEN "" ELSE notes

\* db.save_meal(meal_id, timestamp, notes, items): the stored meal, the same
\* on both backends (SQLite keeps the items as JSON text, Firestore embeds
\* them)
stored_meal(meal_id, timestamp, notes, items) ==
    [meal_id |-> meal_id,
     timestamp |-> timestamp,
     date_str |-> first_ten(timestamp),
     notes |-> notes_or_empty(notes),
     items |-> items]

\* db.save_meal(meal_id, timestamp, notes, items): what the call raises, the
\* meal it returns and the meals stored afterwards.  In SQLite meal_id is the
\* primary key of the table and a second INSERT of it fails; in Firestore
\* document(meal_id).set(data) replaces the document.
db_save_meal(db, meal_id, timestamp, notes, items) ==
    LET meal == stored_meal(meal_id, timestamp, notes, items)
        held == {m \in 1..Len(db.meals) : db.meals[m].meal_id = meal_id}
        returned == [id |-> meal_id] @@ meal
    IN  IF held = {}
        THEN [raised |-> "none", value |-> returned,
              meals |-> Append(db.meals, meal)]
        ELSE IF db.backend = "sqlite"
        THEN [raised |-> "IntegrityError", value |-> None, meals |-> db.meals]
        ELSE [raised |-> "none", value |-> returned,
              meals |-> [m \in 1..Len(db.meals) |->
                            IF m \in held THEN meal ELSE db.meals[m]]]

\* the instants the server clock passes through (UTC)
Instants == <<[date |-> "2025-02-28", time |-> "23:30:00", tz |-> ""],
              [date |-> "2025-03-01", time |-> "00:30:00", tz |-> ""]>>

\* str(uuid.uuid4()): an identifier never issued before, the n-th one here.
\* The draws are not ordered in time: each odd draw is greater than the even
\* draw that follows it.
uuid4(n) == <<"uuid", IF n % 2 = 1 THEN n + 1 ELSE n - 1>>

item(label, grams, kcal, protein_g, carbs_g, fat_g) ==
    [label |-> label, grams |-> grams,
     macros |-> [kcal |-> kcal, protein_g |-> protein_g, carbs_g |-> carbs_g,
                 fat_g |-> fat_g]]

\* SaveMealRequest bodies the clients send
SaveMealRequests == {
    [items |-> <<item(<<"w", "h", "i", "t", "e", " ", "r", "i", "c", "e">>,
                      180, 234, 49, 517, 5),
                 item(<<"c", "h", "i", "c", "k", "e", "n", " ", "b", "r",
                        "e", "a", "s", "t">>,
                      150, 300, 550, 0, 60)>>,
     timestamp |-> None, notes |-> NoNotes],
    [items |-> <<item(<<"t", "o", "t", "a", "l", "l", "y", " ", "u", "n",
                        "k", "n", "o", "w", "n", " ", "d", "i", "s", "h">>,
                      218, 500, 205, 600, 155)>>,
     timestamp |-> None, notes |-> "dinner"],
    [items |-> <<item(<<"b", "r", "o", "c", "o", "l", "i">>, 218, 0, 0, 0, 0),
                 item(<<"p", "i", "z", "z", "a">>, 150, 399, 165, 495, 150)>>,
     timestamp |-> [date |-> "2025-02-28", time |-> "08:00:00", tz |-> ""],
     notes |-> NoNotes],
    [items |-> <<>>, timestamp |-> None, notes |-> NoNotes],
    [items |-> <<item(<<"c", "h", "i", "c", "k", "e", "n", " ", "b", "r",
                        "e", "a", "s", "t">>,
                      150, 248, 465, 0, 54),
                 item(<<"c", "h", "i", "c", "k", "e", "n", " ", "b", "r",
                        "e", "a", "s", "t">>,
                      150, 248, 465, 0, 54)>>,
     timestamp |-> [date |-> "2025-03-01", time |-> "07:45:00",
                    tz |-> "+08:00"],
     notes |-> NoNotes],
    [items |-> <<item(<<"S", "p", "i", "n", "a", "c", "h">>, 10, 99, 9, 9, 9),
                 item(<<"a">>, 150, 1, 1, 1, 1)>>,
     timestamp |-> None, notes |-> ""],
    [items |-> <<item(<<"g", "r", "i", "l", "l", "e", "d", " ", "s", "a",
                        "l", "m", "o", "n", " ", "f", "i", "l", "l", "e",
                        "t">>, 180, 350, 400, 0, 200),
                 item(<<"r", "i", "c", "e">>, 10, 13, 3, 29, 0)>>,
     timestamp |-> None, notes |-> NoNotes],
    [items |-> <<item(<<"p", "i", "z", "z", "a">>, 150, 399, 165, 495, 150),
                 item(<<"p", "i", "z", "z", "a">>, 150, 399, 165, 495, 150)>>,
     timestamp |-> None, notes |-> NoNotes] }

\* sum of the kcal of the embedded items, in the order of the loop
RECURSIVE kcal_sum(_)
kcal_sum(items) ==
    IF items = <<>> THEN 0
    ELSE items[Len(items)].kcal + kcal_sum(SubSeq(items, 1, Len(items) - 1))

\* the macros of the client, as the stored item keeps them
client_macros(it) ==
    [kcal |-> it.macros.kcal,
     protein_g |-> it.macros.protein_g,
     carbs_g |-> it.macros.carbs_g,
     fat_g |-> it.macros.fat_g]

\* embedded_items.append({...})
embedded(food, it, macros) ==
    [food_id |-> IF food = None THEN "unknown" ELSE food.food_id,
     label |-> it.label,
     grams |-> it.grams,
     kcal |-> macros.kcal,
     protein_g |-> macros.protein_g,
     carbs_g |-> macros.carbs_g,
     fat_g |-> macros.fat_g]

\* one turn of the loop of save_meal, keeping the macros of the client
embed_item_trusting(food, it) == embedded(food, it, client_macros(it))

\* one turn of the loop of save_meal, food being what get_food_fuzzy gave for
\* the label: the embedded item
embed_item(food, it) ==
    embedded(food, it,
             IF food = None THEN client_macros(it)
             ELSE compute_macros_from_food_table[food][it.grams])

\* one turn of the loop of save_meal: the food found and the embedded item
turn(food, it) == [food |-> food, embedded |-> embed_item(food, it)]

\* the loop of save_meal over the items
turns(db, items) ==
    [k \in 1..Len(items) |->
        turn(get_food_fuzzy_table[store(db)][items[k].label], items[k])]

\* save_meal after the loop with the exception of the storage engine caught:
\* the response is built whether db.save_meal was carried out or not
save_turns_answering(db, request, done, meal_id, now, storage_ok) ==
    LET timestamp == isoformat(IF request.timestamp # None
                               THEN request.timestamp ELSE now)
        embedded_items == [k \in 1..Len(done) |-> done[k].embedded]
        missed == {k \in 1..Len(done) : done[k].food = None}
        nth(n) == CHOOSE k \in missed : Cardinality({j \in missed : j <= k}) = n
        unmatched == [n \in 1..Cardinality(missed) |->
                            request.items[nth(n)].label]
    IN  [raised |-> "none",
         body |-> [meal_id |-> meal_id,
                   timestamp |-> timestamp,
                   item_count |-> Len(request.items),
                   total_kcal |-> kcal_sum(embedded_items),
                   unmatched_labels |-> unmatched,
                   status |-> "saved"],
         meals |-> IF ~storage_ok THEN db.meals
                   ELSE db_save_meal(db, meal_id, timestamp, request.notes,
                                     embedded_items).meals]

\* save_meal after the loop, done being its turns: the outcome (the response
\* body, or the exception of the storage engine) and the meals stored
\* afterwards
save_turns(db, request, done, meal_id, now, storage_ok) ==
    LET timestamp == isoformat(IF request.timestamp # None
                               THEN request.timestamp ELSE now)
        embedded_items == [k \in 1..Len(done) |-> done[k].embedded]
        missed == {k \in 1..Len(done) : done[k].food = None}
        nth(n) == CHOOSE k \in missed : Cardinality({j \in missed : j <= k}) = n
        unmatched == [n \in 1..Cardinality(missed) |->
                            request.items[nth(n)].label]
    IN  IF ~storage_ok
        THEN [raised |-> "StorageError", body |-> None, meals |-> db.meals]
        ELSE [raised |-> "none",
              body |-> [meal_id |-> meal_id,
                        timestamp |-> timestamp,
                        item_count |-> Len(request.items),
                        total_kcal |-> kcal_sum(embedded_items),
                        unmatched_labels |-> unmatched,
                        status |-> "saved"],
              meals |-> db_save_meal(db, meal_id, timestamp, request.notes,
                                     embedded_items).meals]

\* save_meal(request) on the database db.  meal_id is the uuid drawn, now the
\* value of utcnow(), storage_ok whether the storage engine carries
\* db.save_meal out.
save_meal(db, request, meal_id, now, storage_ok) ==
    save_turns(db, request, turns(db, request.items), meal_id, now, storage_ok)


-----------------------------------------------------------------------------
(* db: reading the meals; api/routes_meals.py: GET /meals/today *)

\* a read of the meals that resolves the label of every item again, and
\* scales the food found to the grams
get_meals_by_date_resolving(db, date_str) ==
    LET rows == SelectSeq(db.meals, LAMBDA meal : meal.date_str = date_str)
        again(st) ==
            embed_item(get_food_fuzzy_table[store(db)][st.label],
                       item(st.label, st.grams, st.kcal, st.protein_g,
                            st.carbs_g, st.fat_g))
    IN  [m \in 1..Len(rows) |->
            [rows[m] EXCEPT
                !.items = [k \in 1..Len(rows[m].items) |->
                                again(rows[m].items[k])]]]

\* a read of the meals that does not look at the date
get_meals_of_any_date(db, date_str) == db.meals

\* db.get_meals_by_date(date_str): the stored meals with that date_str.
\* SQLite reads the rows in the order of their insertion; Firestore streams
\* the documents by document id and adds the key "id".
get_meals_by_date(db, date_str) ==
    LET rows == SelectSeq(db.meals, LAMBDA meal : meal.date_str = date_str)
        docs == SortSeq(rows, LAMBDA x, y : x.meal_id[2] < y.meal_id[2])
    IN  IF db.backend = "sqlite" THEN rows
        ELSE [m \in 1..Len(docs) |-> [id |-> docs[m].meal_id] @@ docs[m]]

\* the dates the meals are asked for
Dates == {"2025-02-28", "2025-03-01"}

\* date.today().isoformat() at the n-th instant: the date of the server's
\* zone, which is UTC
today(n) == Instants[n].date

\* get_meals_today() adding up the calories of the items of a known food only
meal_totals_known(meals) ==
    LET item_sum(meal, field) ==
            float_sum([k \in 1..Len(meal.items) |->
                            float_of_tenths(meal.items[k][field])])
        total(field) ==
            py_round1(float_sum([m \in 1..Len(meals) |->
                                    item_sum(meals[m], field)]))
        meal_kcal(meal) ==
            int_sum([k \in 1..Len(meal.items) |->
                        IF meal.items[k].food_id = "unknown" THEN 0
                        ELSE meal.items[k].kcal])
    IN  [total_kcal |-> int_sum([m \in 1..Len(meals) |-> meal_kcal(meals[m])]),
         total_protein_g |-> total("protein_g"),
         total_carbs_g |-> total("carbs_g"),
         total_fat_g |-> total("fat_g"),
         meal_count |-> Len(meals),
         meals |-> [m \in 1..Len(meals) |->
                        [meal_id |-> meals[m].meal_id,
                         timestamp |-> meals[m].timestamp,
                         item_count |-> Len(meals[m].items),
                         total_kcal |-> meal_kcal(meals[m])]]]

\* the response of get_meals_today for the meals get_meals_by_date gave
meal_totals(meals) ==
    LET item_sum(meal, field) ==
            float_sum([k \in 1..Len(meal.items) |->
                            float_of_tenths(meal.items[k][field])])
        total(field) ==
            py_round1(float_sum([m \in 1..Len(meals) |->
                                    item_sum(meals[m], field)]))
        meal_kcal(meal) ==
            int_sum([k \in 1..Len(meal.items) |-> meal.items[k].kcal])
    IN  [total_kcal |-> int_sum([m \in 1..Len(meals) |-> meal_kcal(meals[m])]),
         total_protein_g |-> total("protein_g"),
         total_carbs_g |-> total("carbs_g"),
         total_fat_g |-> total("fat_g"),
         meal_count |-> Len(meals),
         meals |-> [m \in 1..Len(meals) |->
                        [meal_id |-> meals[m].meal_id,
                         timestamp |-> meals[m].timestamp,
                         item_count |-> Len(meals[m].items),
                         total_kcal |-> meal_kcal(meals[m])]]]

\* get_meals_today() on the database db, today_str being the date of today
get_meals_today(db, today_str) ==
    meal_totals(get_meals_by_date(db, today_str))

-----------------------------------------------------------------------------
(* app_flutter/verify_sync.py *)

\* The files are kept as what the patterns of the script can tell apart.
\* pubspec.yaml is a list of lines [key, name, code], the text after the key
\* being name "+" code, or name alone when code is "".  build.gradle is
\* [applicationId], NoValue when the file has no such line.  Info.plist is the
\* set of its keys whose value is the Flutter variable.  app_config.yaml is a
\* list of lines [key, value, comment].

\* None, where the script expects a text
NoValue == "None"

\* read_pubspec_version(): the first line "version: X.Y.Z+N"
read_pubspec_version(pubspec) ==
    LET hits == {i \in 1..Len(pubspec) :
                    /\ pubspec[i].key = "version"
                    /\ pubspec[i].name # "" /\ pubspec[i].code # ""}
    IN  IF hits = {} THEN <<NoValue, NoValue>>
        ELSE <<pubspec[set_min(hits)].name, pubspec[set_min(hits)].code>>

\* read_android_config()['app_id']
read_android_config(gradle) == [app_id |-> gradle.applicationId]

\* read_ios_config()['uses_flutter_vars']
read_ios_config(plist) ==
    [uses_flutter_vars |->
        /\ "CFBundleIdentifier" \in plist
        /\ "CFBundleShortVersionString" \in plist
        /\ "CFBundleVersion" \in plist]

\* read_app_config().get(key): the value of the last line with the key that
\* is not a comment, NoValue without one
app_config_get(app_config, key) ==
    LET hits == {i \in 1..Len(app_config) :
                    app_config[i].key = key /\ ~app_config[i].comment}
    IN  IF hits = {} THEN NoValue
        ELSE app_config[CHOOSE i \in hits : \A j \in hits : j <= i].value

\* the errors main() has collected before its summary
sync_errors(android_config, ios_config, package_name) ==
    (IF android_config.app_id # package_name
     THEN <<"Android applicationId mismatch">> ELSE <<>>)
    \o (IF ~ios_config.uses_flutter_vars
        THEN <<"iOS Info.plist not using Flutter variables">> ELSE <<>>)

\* main(): the exit status.  The version read from pubspec.yaml is printed
\* and not looked at again.
main(files) ==
    LET version == read_pubspec_version(files.pubspec)
        errors == sync_errors(read_android_config(files.gradle),
                              read_ios_config(files.plist),
                              app_config_get(files.app_config,
                                             "package_name"))
    IN  IF errors # <<>> THEN 1 ELSE 0

\* the project files the script is run on
Pubspecs == {
    <<[key |-> "name", name |-> "foodvision", code |-> ""],
      [key |-> "version", name |-> "1.0.0", code |-> "1"]>>,
    <<[key |-> "name", name |-> "foodvision", code |-> ""]>>,
    <<[key |-> "version", name |-> "1.2.0", code |-> ""]>> }

Gradles == {[applicationId |-> "com.foodvision.app"],
            [applicationId |-> "com.example.app"],
            [applicationId |-> NoValue]}

Plists == SUBSET {"CFBundleIdentifier", "CFBundleShortVersionString",
                  "CFBundleVersion"}

AppConfigs == {
    <<[key |-> "package_name", value |-> "com.foodvision.app",
       comment |-> FALSE]>>,
    <<[key |-> "package_name", value |-> "com.foodvision.app",
       comment |-> TRUE],
      [key |-> "min_sdk", value |-> "21", comment |-> FALSE]>>,
    <<[key |-> "package_name", value |-> "com.example.app",
       comment |-> FALSE],
      [key |-> "package_name", value |-> "com.foodvision.app",
       comment |-> FALSE]>> }

-----------------------------------------------------------------------------
(* Calls *)

ImageLists == UNION {[1..n -> Images] : n \in 0..MaxImages}

\* the uploads of a request
UploadLists == UNION {[1..n -> Images] : n \in 0..MaxUploads}

\* the metadata maps direct callers pass
MetadataMaps == {<<>>, [platform |-> "ios"]}

NoSummary == [first |-> "none"]

\* what the last call leaves in the history: a summary of the analyzer
\* invocation it made, if it made one and the analyzer answered
summary ==
    IF invocation.answered
    THEN [first |-> invocation.image_bytes[1],
          final |-> invocation.image_bytes[Len(invocation.image_bytes)],
          metadata |-> invocation.metadata,
          item |-> (IF op = "analyze" THEN ret.value ELSE ret.body).items[1]]
    ELSE prev

\* no call made yet
InitCalls ==
    /\ op = "init"
    /\ args = <<>>
    /\ ret = <<>>
    /\ invocation = NoCall
    /\ prev = NoSummary
    /\ reported = <<>>

\* the database of the backend on empty stores
empty(backend) == [backend |-> backend, foods |-> <<>>, meals |-> <<>>]

\* the backend get_database() does not select
other(backend) == IF backend = "sqlite" THEN "firestore" ELSE "sqlite"

\* a server started in the given environment on empty stores
InitServer(environment) ==
    /\ database = started(environment)
    /\ mirror = empty(other(get_database(environment)))
    /\ seeders = <<>>
    /\ clock = 1
    /\ issued = 0

Init == InitCalls /\ \E environment \in Environments : InitServer(environment)

\* the two backends on empty stores, before any server has started
InitStore ==
    /\ InitCalls
    /\ \E backend \in {"sqlite", "firestore"} :
            /\ database = empty(backend)
            /\ mirror = empty(other(backend))
    /\ seeders = <<>>
    /\ clock = 1
    /\ issued = 0

\* the server instances that start at the same time on one document store
Instances == {"a", "b"}

\* two instances about to start on an empty document store
InitSeeding ==
    /\ InitCalls
    /\ database = empty("firestore")
    /\ mirror = empty(other("firestore"))
    /\ seeders = [i \in Instances |->
                    [pc |-> "count", k |-> 1, inserted |-> 0]]
    /\ clock = 1
    /\ issued = 0

\* the server of the default environment
InitDefault == InitCalls /\ InitServer(DefaultEnvironment)

\* a direct call of the analysis service, as the unit tests make it
Analyze(image_bytes, metadata) ==
    /\ op' = "analyze"
    /\ args' = [image_bytes |-> image_bytes, metadata |-> metadata]
    /\ ret' = analyze_images_deterministic(image_bytes, metadata)
    /\ invocation' = [image_bytes |-> image_bytes, metadata |-> metadata,
                      answered |-> ret'.raised = "none"]
    /\ prev' = summary
    /\ UNCHANGED <<database, clock, issued, mirror, seeders>>
    /\ UNCHANGED reported

\* POST /meals/analyze
AnalyzeMeal(images, metadata) ==
    /\ op' = "POST /meals/analyze"
    /\ args' = [images |-> images, metadata |-> metadata]
    /\ LET r == analyze_meal(images, metadata)
       IN  /\ ret' = [status |-> r.status, body |-> r.body]
           /\ invocation' = r.call
    /\ prev' = summary
    /\ UNCHANGED <<database, clock, issued, mirror, seeders>>
    /\ UNCHANGED reported

\* a direct call of get_food_fuzzy(db, label)
GetFoodFuzzy(label) ==
    /\ op' = "get_food_fuzzy"
    /\ args' = [label |-> label]
    /\ ret' = get_food_fuzzy_table[store(database)][label]
    /\ UNCHANGED <<invocation, prev, database, clock, issued, mirror,
                 seeders>>
    /\ UNCHANGED reported

\* a direct call of compute_macros_from_food on a food of the store
ComputeMacrosFromFood(food, grams) ==
    /\ op' = "compute_macros_from_food"
    /\ args' = [food |-> food, grams |-> grams]
    /\ ret' = compute_macros_from_food_table[food][grams]
    /\ UNCHANGED <<invocation, prev, database, clock, issued, mirror,
                 seeders>>
    /\ UNCHANGED reported

\* a direct call of compute_macros, as the unit tests make it
ComputeMacros(food_name, grams) ==
    /\ op' = "compute_macros"
    /\ args' = [food_name |-> food_name, grams |-> grams]
    /\ ret' = compute_macros_table[food_name][grams]
    /\ UNCHANGED <<invocation, prev, database, clock, issued, mirror,
                 seeders>>
    /\ UNCHANGED reported

\* a direct call of compute_total_macros, as the unit tests make it
ComputeTotalMacros(items) ==
    /\ op' = "compute_total_macros"
    /\ args' = [items |-> items]
    /\ ret' = compute_total_macros_table[items]
    /\ UNCHANGED <<invocation, prev, database, clock, issued, mirror,
                 seeders>>
    /\ UNCHANGED reported

\* POST /meals answered: r is what save_meal gave
Answered(request, r) ==
    /\ op' = "POST /meals"
    /\ args' = request
    /\ ret' = [raised |-> r.raised, body |-> r.body]
    /\ database' = [database EXCEPT !.meals = r.meals]
    /\ issued' = issued + 1
    /\ reported' = IF r.raised = "none" THEN Append(reported, r.body)
                   ELSE reported
    /\ UNCHANGED <<invocation, prev, clock, mirror, seeders>>

\* POST /meals
SaveMeal(request, storage_ok) ==
    /\ issued < MaxSaves
    /\ Answered(request, save_meal(database, request, uuid4(issued + 1),
                                   Instants[clock], storage_ok))

\* GET /meals/today; args keeps the date the route asked the database for
GetMealsToday ==
    /\ op' = "GET /meals/today"
    /\ args' = [today_str |-> today(clock)]
    /\ ret' = get_meals_today(database, today(clock))
    /\ UNCHANGED <<invocation, prev, database, clock, issued, mirror, seeders>>
    /\ UNCHANGED reported

\* db.get_meals_by_date(date_str), called on the database and on the mirror
GetMealsByDate(date_str) ==
    /\ op' = "get_meals_by_date"
    /\ args' = [date_str |-> date_str]
    /\ ret' = [value |-> get_meals_by_date(database, date_str),
               mirrored |-> get_meals_by_date(mirror, date_str)]
    /\ UNCHANGED <<invocation, prev, database, clock, issued, mirror, seeders>>
    /\ UNCHANGED reported

\* db.seed_foods(foods), called on the database and on the mirror
SeedFoods(foods) ==
    /\ op' = "seed_foods"
    /\ args' = [foods |-> foods]
    /\ ret' = [value |-> seed_foods(database.foods, foods).inserted,
               mirrored |-> seed_foods(mirror.foods, foods).inserted]
    /\ database' = [database EXCEPT
                        !.foods = seed_foods(database.foods, foods).foods]
    /\ mirror' = [mirror EXCEPT
                        !.foods = seed_foods(mirror.foods, foods).foods]
    /\ UNCHANGED <<invocation, prev, clock, issued, seeders>>
    /\ UNCHANGED reported

\* food lists given to seed_foods on a store that may hold foods already: a
\* food named with a capital; a food whose id is stored with other values, a
\* new food, and the new food once more
SeedLists == {
    <<[food_id |-> "apple", name |-> <<"a", "p", "p", "l", "e">>,
       kcal_per_100g |-> 52, protein_g_per_100g |-> 3,
       carbs_g_per_100g |-> 138, fat_g_per_100g |-> 2],
      [food_id |-> "banana", name |-> <<"B", "a", "n", "a", "n", "a">>,
       kcal_per_100g |-> 89, protein_g_per_100g |-> 11,
       carbs_g_per_100g |-> 228, fat_g_per_100g |-> 3]>>,
    <<[food_id |-> "apple", name |-> <<"a", "p", "p", "l", "e">>,
       kcal_per_100g |-> 99, protein_g_per_100g |-> 9,
       carbs_g_per_100g |-> 99, fat_g_per_100g |-> 9]>> \o LaterFoods
        \o LaterFoods }

\* the names and ids the foods are asked by
AskedNames == {<<"a", "p", "p", "l", "e">>,
               <<"B", "a", "n", "a", "n", "a">>,
               <<" ", "b", "a", "n", "a", "n", "a">>,
               <<"p", "i", "z", "z", "a">>}

AskedIds == {"apple", "banana", "pizza", "mango"}

\* the arguments of db.save_meal: two meals of one meal_id, and another
StoredMeals == {
    [meal_id |-> uuid4(1),
     timestamp |-> <<"2025-02-28", "T", "23:30:00", "">>, notes |-> NoNotes,
     items |-> <<>>],
    [meal_id |-> uuid4(1),
     timestamp |-> <<"2025-03-01", "T", "00:30:00", "">>, notes |-> "dinner",
     items |-> <<[food_id |-> "apple",
                  label |-> <<"a", "p", "p", "l", "e">>, grams |-> 150,
                  kcal |-> 78, protein_g |-> 5, carbs_g |-> 207,
                  fat_g |-> 3]>>],
    [meal_id |-> uuid4(2),
     timestamp |-> <<"2025-03-01", "T", "00:30:00", "">>, notes |-> "",
     items |-> <<>>] }

\* db.get_food_by_name(name), called on the database and on the mirror
GetFoodByName(name) ==
    /\ op' = "get_food_by_name"
    /\ args' = [name |-> name]
    /\ ret' = [value |-> get_food_by_name(database, name),
               mirrored |-> get_food_by_name(mirror, name)]
    /\ UNCHANGED <<invocation, prev, database, clock, issued, mirror, seeders>>
    /\ UNCHANGED reported

\* db.get_food_by_id(food_id), called on the database and on the mirror
GetFoodById(food_id) ==
    /\ op' = "get_food_by_id"
    /\ args' = [food_id |-> food_id]
    /\ ret' = [value |-> get_food_by_id(database, food_id),
               mirrored |-> get_food_by_id(mirror, food_id)]
    /\ UNCHANGED <<invocation, prev, database, clock, issued, mirror, seeders>>
    /\ UNCHANGED reported

\* db.get_all_foods(), called on the database and on the mirror
GetAllFoods ==
    /\ op' = "get_all_foods"
    /\ args' = <<>>
    /\ ret' = [value |-> get_all_foods(database),
               mirrored |-> get_all_foods(mirror)]
    /\ UNCHANGED <<invocation, prev, database, clock, issued, mirror, seeders>>
    /\ UNCHANGED reported

\* db.save_meal(meal_id, timestamp, notes, items), called on the database
\* and on the mirror: r and q are what db_save_meal gave for each
Stored(meal, r, q) ==
    /\ op' = "save_meal"
    /\ args' = meal
    /\ ret' = [value |-> [raised |-> r.raised, value |-> r.value],
               mirrored |-> [raised |-> q.raised, value |-> q.value]]
    /\ database' = [database EXCEPT !.meals = r.meals]
    /\ mirror' = [mirror EXCEPT !.meals = q.meals]
    /\ issued' = issued + 1
    /\ UNCHANGED <<invocation, prev, clock, seeders>>
    /\ UNCHANGED reported

StoreMeal(meal) ==
    /\ issued < MaxSaves
    /\ Stored(meal,
              db_save_meal(database, meal.meal_id, meal.timestamp, meal.notes,
                           meal.items),
              db_save_meal(mirror, meal.meal_id, meal.timestamp, meal.notes,
                           meal.items))

\* a server has started on the database and one on the mirror, r and q
\* being what lifespan made of each; ret tells whether the foods were seeded
Started(r, q) ==
    /\ op' = "lifespan"
    /\ args' = <<>>
    /\ ret' = [value |-> r # database, mirrored |-> q # mirror]
    /\ database' = r
    /\ mirror' = q
    /\ UNCHANGED <<invocation, prev, clock, issued, seeders>>
    /\ UNCHANGED reported

\* a server starts
Startup == Started(lifespan(database), lifespan(mirror))

\* python verify_sync.py in a project with the given files
VerifySync(files) ==
    /\ op' = "verify_sync"
    /\ args' = files
    /\ ret' = main(files)
    /\ UNCHANGED <<invocation, prev, database, clock, issued, mirror, seeders>>
    /\ UNCHANGED reported

\* the number of foods the instances seed: the first foods of the seed data
MaxSeeded == 3

\* _seed_data(), cut to the foods that are seeded
seeded_data == SubSeq(_seed_data, 1, MaxSeeded)

\* An instance in its startup is [pc, k, inserted]: pc is "count" before
\* get_food_count(), "exists" before ref.get().exists for the k-th food of
\* the seed data, "set" before ref.set(food), "done" after the startup.

\* the instance after the turn of the loop of seed_foods for the k-th food
next_food(seeder, inserted) ==
    [pc |-> IF seeder.k < Len(seeded_data) THEN "exists" ELSE "done",
     k |-> seeder.k + 1,
     inserted |-> inserted]

\* lifespan: food_count = db.get_food_count(); seed_foods is called when it
\* is 0
Count(i) ==
    /\ seeders[i].pc = "count"
    /\ seeders' = [seeders EXCEPT
                    ![i].pc = IF get_food_count(database) = 0
                              THEN "exists" ELSE "done"]
    /\ UNCHANGED <<op, args, ret, invocation, prev, database, clock, issued,
                   mirror>>
    /\ UNCHANGED reported

\* seed_foods: ref.get().exists for the k-th food
Exists(i) ==
    /\ seeders[i].pc = "exists"
    /\ seeders' = [seeders EXCEPT
                    ![i] = IF get_food_by_id(database,
                                             seeded_data[@.k].food_id) # None
                           THEN next_food(@, @.inserted)
                           ELSE [@ EXCEPT !.pc = "set"]]
    /\ UNCHANGED <<op, args, ret, invocation, prev, database, clock, issued,
                   mirror>>
    /\ UNCHANGED reported

\* ref.set(food): the document of the food_id is created, or written again
document_set(foods, food) ==
    IF \E j \in 1..Len(foods) : foods[j].food_id = food.food_id
    THEN [j \in 1..Len(foods) |->
            IF foods[j].food_id = food.food_id THEN food ELSE foods[j]]
    ELSE Append(foods, food)

\* seed_foods: ref.set(food) and inserted += 1 for the k-th food
Set(i) ==
    /\ seeders[i].pc = "set"
    /\ database' = [database EXCEPT
                        !.foods = document_set(@, seeded_data[seeders[i].k])]
    /\ seeders' = [seeders EXCEPT ![i] = next_food(@, @.inserted + 1)]
    /\ UNCHANGED <<op, args, ret, invocation, prev, clock, issued, mirror>>
    /\ UNCHANGED reported

\* time passes
Tick ==
    /\ clock < Len(Instants)
    /\ clock' = clock + 1
    /\ UNCHANGED <<op, args, ret, invocation, prev, database, issued, mirror,
                 seeders>>
    /\ UNCHANGED reported

NextAnalysis ==
    \E image_bytes \in ImageLists, metadata \in MetadataMaps :
        Analyze(image_bytes, metadata)

NextRoute ==
    \E images \in UploadLists, metadata \in MetadataTexts :
        AnalyzeMeal(images, metadata)

NextNutrition ==
    \/ \E label \in Labels : GetFoodFuzzy(label)
    \/ \E food \in elements(get_all_foods(database)), grams \in Grams :
            ComputeMacrosFromFood(food, grams)
    \/ \E food_name \in FoodNames, grams \in Grams :
            ComputeMacros(food_name, grams)
    \/ \E items \in TotalItemLists : ComputeTotalMacros(items)

Next ==
    \/ \E request \in SaveMealRequests, storage_ok \in BOOLEAN :
            SaveMeal(request, storage_ok)
    \/ \E items \in TotalItemLists : ComputeTotalMacros(items)
    \/ Tick

\* the requests that differ in what the read path makes of them: those with
\* a timestamp of the client, and those with fewer than two items
DayRequests ==
    {request \in SaveMealRequests :
        request.timestamp # None \/ Len(request.items) < 2}

\* requests with an item whose label is empty or blank
BlankRequests == {
    [items |-> <<item(<<>>, 150, 1, 1, 1, 1),
                 item(<<"w", "h", "i", "t", "e", " ", "r", "i", "c", "e">>,
                      180, 234, 49, 517, 5)>>,
     timestamp |-> None, notes |-> NoNotes],
    [items |-> <<item(<<" ", " ">>, 10, 99, 9, 9, 9)>>,
     timestamp |-> None, notes |-> NoNotes],
    [items |-> <<item(<<"t", "o", "t", "a", "l", "l", "y", " ", "u", "n",
                        "k", "n", "o", "w", "n", " ", "d", "i", "s", "h">>,
                      218, 500, 205, 600, 155),
                 item(<<" ", " ">>, 180, 0, 0, 0, 0)>>,
     timestamp |-> None, notes |-> "lunch"] }

NextLabels ==
    \/ \E label \in Labels : GetFoodFuzzy(label)
    \/ \E request \in BlankRequests, storage_ok \in BOOLEAN :
            SaveMeal(request, storage_ok)
    \/ SeedFoods(LaterFoods)
    \/ Tick

NextMeals ==
    \/ \E request \in DayRequests, storage_ok \in BOOLEAN :
            SaveMeal(request, storage_ok)
    \/ GetMealsToday
    \/ \E date_str \in Dates : GetMealsByDate(date_str)
    \/ SeedFoods(LaterFoods)
    \/ Tick

NextStore ==
    \/ \E foods \in SeedLists : SeedFoods(foods)
    \/ \E name \in AskedNames : GetFoodByName(name)
    \/ \E food_id \in AskedIds : GetFoodById(food_id)
    \/ GetAllFoods
    \/ \E meal \in StoredMeals : StoreMeal(meal)
    \/ \E date_str \in Dates : GetMealsByDate(date_str)
    \/ Startup

NextSync ==
    \E pubspec \in Pubspecs, gradle \in Gradles, plist \in Plists,
       app_config \in AppConfigs :
        VerifySync([pubspec |-> pubspec, gradle |-> gradle, plist |-> plist,
                    app_config |-> app_config])

NextSeeding ==
    \E i \in Instances : Count(i) \/ Exists(i) \/ Set(i)

\* the analysis service under direct calls
SpecAnalysis == InitDefault /\ [][NextAnalysis]_vars

\* the analyze route
SpecRoute == InitDefault /\ [][NextRoute]_vars

\* the nutrition service under direct calls, on a started server
SpecNutrition == Init /\ [][NextNutrition]_vars

\* POST /meals and the nutrition service
Spec == Init /\ [][Next]_vars

\* the verification script of the Flutter project
SpecSync == InitDefault /\ [][NextSync]_vars

\* two instances starting at the same time
SpecSeeding == InitSeeding /\ [][NextSeeding]_vars

\* the two storage backends under the same calls
SpecStore == InitStore /\ [][NextStore]_vars

\* the meal routes, on a food store that grows
SpecMeals == Init /\ [][NextMeals]_vars

\* the resolver and POST /meals on the same store
SpecLabels == Init /\ [][NextLabels]_vars

-----------------------------------------------------------------------------
(* Properties of the analysis service and of the analyze route *)

\* C1: two answered calls of analyze_images_deterministic whose first image
\* has the same bytes return the same canned item (label, grams estimate,
\* grams range, macros), whatever the other images and the metadata are.
C1_FirstImageDecides ==
    (op = "analyze" /\ invocation.answered /\ prev # NoSummary
        /\ prev.first = args.image_bytes[1])
    => ret.value.items[1] = prev.item

\* two calls with the same first image, another last image and other metadata
C1_Witness ==
    /\ op = "analyze" /\ invocation.answered /\ prev # NoSummary
    /\ prev.first = args.image_bytes[1]
    /\ prev.final # args.image_bytes[Len(args.image_bytes)]
    /\ prev.metadata # args.metadata
    /\ ret.value.items[1] = prev.item

\* C2: for a non-empty image list, fewer than 5 images give
\* needs_more_photos, overall confidence 0.65 and some suggested shots; 5 or
\* more give no needs_more_photos, overall confidence 0.75 and no suggestion.
C2_PhotoThreshold ==
    (op = "analyze" /\ args.image_bytes # <<>>)
    => /\ ret.raised = "none"
       /\ Len(args.image_bytes) < 5
            => /\ ret.value.needs_more_photos = TRUE
               /\ ret.value.overall_confidence = 65
               /\ ret.value.suggested_next_shots # <<>>
       /\ Len(args.image_bytes) >= 5
            => /\ ret.value.needs_more_photos = FALSE
               /\ ret.value.overall_confidence = 75
               /\ ret.value.suggested_next_shots = <<>>

\* a call with exactly 5 images, answered with the higher confidence
C2_Witness ==
    /\ op = "analyze" /\ Len(args.image_bytes) = 5
    /\ ret.raised = "none" /\ ret.value.overall_confidence = 75
    /\ ret.value.needs_more_photos = FALSE

\* C3: a call with the empty image list raises ValueError and produces no
\* analysis result.
C3_EmptyListRaises ==
    (op = "analyze" /\ args.image_bytes = <<>>)
    => /\ ret.raised = "ValueError"
       /\ ~invocation.answered

C3_Witness ==
    op = "analyze" /\ args.image_bytes = <<>> /\ ret.raised = "ValueError"

\* C4: POST /meals/analyze with fewer than 3 images is answered 400 without
\* the analyzer being invoked; the route invokes the analyzer with at least 3
\* images only.
C4_MinimumPhotos ==
    op = "POST /meals/analyze"
    => /\ Len(args.images) < 3 => (ret.status = 400 /\ invocation = NoCall)
       /\ invocation # NoCall => Len(invocation.image_bytes) >= 3

\* a request with 2 images, refused
C4_Witness ==
    /\ op = "POST /meals/analyze" /\ Len(args.images) = 2
    /\ ret.status = 400 /\ invocation = NoCall

\* C5: a request with at least 3 images and metadata that is not valid JSON
\* is not rejected, and is answered as the same request without metadata.
C5_MalformedMetadataIgnored ==
    (op = "POST /meals/analyze" /\ Len(args.images) >= 3
        /\ truthy(args.metadata) /\ json_loads(args.metadata).raised # "none")
    => /\ ret.status = 200
       /\ LET plain == analyze_meal(args.images, NoMetadata)
          IN  ret = [status |-> plain.status, body |-> plain.body]

C5_Witness ==
    /\ op = "POST /meals/analyze" /\ Len(args.images) >= 3
    /\ args.metadata = "{\"platform\": " /\ ret.status = 200

-----------------------------------------------------------------------------
(* Properties of the nutrition service *)

\* C6: for every food and every gram quantity g >= 0, the kcal returned by
\* compute_macros_from_food and by compute_macros is kcal_per_100g * g / 100
\* rounded to the nearest integer, exact halves away from zero.
C6_KcalHalfAwayFromZero ==
    /\ op = "compute_macros_from_food"
        => ret.kcal = (args.food.kcal_per_100g * args.grams + 50) \div 100
    /\ (op = "compute_macros" /\ ret.raised = "none")
        => ret.value.kcal =
            (NUTRITION_DB_get(lower(args.food_name)).kcal_per_100g
                * args.grams + 50) \div 100

\* C7: when a food of the store has the normalized label as its name,
\* get_food_fuzzy returns that food, whatever the other foods offer to the
\* substring scan and to the similarity search; get_food_fuzzy("white rice")
\* returns the food white_rice.
C7_ExactNameWins ==
    op = "get_food_fuzzy"
    => /\ \A i \in 1..Len(database.foods) :
            database.foods[i].name = _normalize(args.label)
            => /\ ret # None
               /\ ret.food_id = database.foods[i].food_id
               /\ ret.name = database.foods[i].name
       /\ args.label = <<"w", "h", "i", "t", "e", " ", "r", "i", "c",
                         "e">>
            => (ret # None /\ ret.food_id = "white_rice")

\* "Spinach" on the document store: the name is met in "kangkung / water
\* spinach", which the scan reads before "spinach"
C7_Witness ==
    /\ op = "get_food_fuzzy"
    /\ args.label = <<"S", "p", "i", "n", "a", "c", "h">>
    /\ ret # None /\ ret.food_id = "spinach"
    /\ LET all_foods == get_all_foods(database)
       IN  \E i, j \in 1..Len(all_foods) :
                /\ i < j
                /\ all_foods[j].food_id = "spinach"
                /\ all_foods[i].food_id = "kangkung"
                /\ str_in(_normalize(args.label), all_foods[i].name)

\* the label's similarity to every food name is below 0.55
C8_AllBelow(label) ==
    \A i \in 1..Len(database.foods) :
        LET r == ratio(_normalize(database.foods[i].name), _normalize(label))
        IN  r.num * 100 < 55 * r.den

\* no food name equals the normalized label, contains it or is contained in it
C8_NoNameMatch(label) ==
    \A i \in 1..Len(database.foods) :
        LET name == _normalize(database.foods[i].name)
        IN  /\ name # _normalize(label)
            /\ ~str_in(_normalize(label), name)
            /\ ~str_in(name, _normalize(label))

\* C8, as the specification states it: for any label, get_food_fuzzy returns
\* None when the label's similarity to every food name is below 0.55.
C8_NotFoundBelowCutoff ==
    (op = "get_food_fuzzy" /\ C8_AllBelow(args.label)) => ret = None

\* C8, amended: for a label that no food name equals, contains or is
\* contained in, get_food_fuzzy returns None when the label's similarity to
\* every food name is below 0.55.
C8_NotFoundBelowCutoffUnmatched ==
    (op = "get_food_fuzzy" /\ C8_NoNameMatch(args.label)
        /\ C8_AllBelow(args.label))
    => ret = None

\* "pizza": no name matches, the best similarity is 0.5
C8_Witness ==
    /\ op = "get_food_fuzzy"
    /\ args.label = <<"p", "i", "z", "z", "a">>
    /\ C8_NoNameMatch(args.label) /\ C8_AllBelow(args.label)
    /\ ret = None

\* the foods of the list whose normalized name contains the normalized
\* label or is contained in it
C17_qualifying(all_foods, norm_label) ==
    {i \in 1..Len(all_foods) :
        \/ str_in(norm_label, _normalize(all_foods[i].name))
        \/ str_in(_normalize(all_foods[i].name), norm_label)}

\* C17: when no food name equals the normalized label and some food name
\* contains the normalized label or is contained in it, get_food_fuzzy
\* returns the first such food in the order get_all_foods gives the foods,
\* whatever the similarity of the other names is.
C17_FirstSubstringMatch ==
    (op = "get_food_fuzzy"
        /\ \A i \in 1..Len(database.foods) :
                database.foods[i].name # _normalize(args.label)
        /\ C17_qualifying(get_all_foods(database),
                          _normalize(args.label)) # {})
    => ret = get_all_foods(database)[
                set_min(C17_qualifying(get_all_foods(database),
                                       _normalize(args.label)))]

\* "rice" on the document store: six names contain it, and the first by
\* document id is basmati rice, not the first food of the seed data
C17_Witness ==
    /\ op = "get_food_fuzzy"
    /\ args.label = <<"r", "i", "c", "e">>
    /\ database.backend = "firestore"
    /\ Cardinality(C17_qualifying(get_all_foods(database),
                                  _normalize(args.label))) > 1
    /\ ret # None /\ ret.food_id = "basmati_rice"
    /\ database.foods[1].food_id = "white_rice"

\* the similarity of a food name to the label, as get_close_matches scores it
C18_score(food, label) == ratio(_normalize(food.name), _normalize(label))

\* the score of food is the greatest among the foods
C18_best(food, foods, label) ==
    \A i \in 1..Len(foods) :
        C18_score(foods[i], label).num * C18_score(food, label).den
            <= C18_score(food, label).num * C18_score(foods[i], label).den

\* C18: when no food name equals the normalized label, contains it or is
\* contained in it, get_food_fuzzy returns a food whose similarity to the
\* label is the greatest of all foods if that similarity is at least 0.55,
\* and None if every similarity is below 0.55.
C18_BestAboveCutoff ==
    (op = "get_food_fuzzy" /\ C8_NoNameMatch(args.label))
    => IF \E i \in 1..Len(database.foods) :
            C18_score(database.foods[i], args.label).num * 100
                >= 55 * C18_score(database.foods[i], args.label).den
       THEN /\ ret # None
            /\ C18_best(ret, database.foods, args.label)
       ELSE ret = None

\* "kangkung / qqqqq": no name matches, the best similarity is that of
\* "kangkung / water spinach", 0.55 exactly
C18_Witness ==
    /\ op = "get_food_fuzzy"
    /\ args.label = <<"k", "a", "n", "g", "k", "u", "n", "g", " ", "/", " ",
                      "q", "q", "q", "q", "q">>
    /\ C8_NoNameMatch(args.label)
    /\ ret # None /\ ret.food_id = "kangkung"
    /\ C18_score(ret, args.label).num * 100
            = 55 * C18_score(ret, args.label).den
    /\ C18_best(ret, database.foods, args.label)

-----------------------------------------------------------------------------
(* Properties of POST /meals *)

\* the stored meal the last response of POST /meals names
saved_meal == database.meals[CHOOSE m \in 1..Len(database.meals) :
                                database.meals[m].meal_id = ret.body.meal_id]

\* C9: the stored macros of an item are those of the food its label resolves
\* to, scaled to its grams, with that food's identifier, whatever the client
\* sent; when the label does not resolve they are the client's macros, the
\* food reference is "unknown" and the label is listed in unmatched_labels.
\* The request fails on a failure of the storage engine only.
C9_SnapshotByResolution ==
    op = "POST /meals"
    => /\ ret.raised \in {"none", "StorageError"}
       /\ ret.raised = "none"
            => /\ \E m \in 1..Len(database.meals) :
                    database.meals[m].meal_id = ret.body.meal_id
               /\ Len(saved_meal.items) = Len(args.items)
               /\ \A k \in 1..Len(args.items) :
                    LET it == args.items[k]
                        st == saved_meal.items[k]
                        food == get_food_fuzzy_table[store(database)][it.label]
                        macros == [kcal |-> st.kcal,
                                   protein_g |-> st.protein_g,
                                   carbs_g |-> st.carbs_g, fat_g |-> st.fat_g]
                    IN  /\ st.label = it.label /\ st.grams = it.grams
                        /\ food # None
                            => /\ macros =
                                    compute_macros_from_food_table[food][
                                        it.grams]
                               /\ st.food_id = food.food_id
                               /\ ~is_in(ret.body.unmatched_labels, it.label)
                        /\ food = None
                            => /\ macros = it.macros
                               /\ st.food_id = "unknown"
                               /\ is_in(ret.body.unmatched_labels, it.label)

\* a saved meal with an item that resolved, stored with other macros than the
\* client's, and an item that did not, stored with the client's
C9_Witness ==
    /\ op = "POST /meals" /\ ret.raised = "none" /\ ret.body.status = "saved"
    /\ Len(args.items) = 2
    /\ saved_meal.items[1].food_id = "broccoli"
    /\ saved_meal.items[1].kcal = 74
    /\ args.items[1].macros.kcal = 0
    /\ saved_meal.items[2].food_id = "unknown"
    /\ saved_meal.items[2].kcal = args.items[2].macros.kcal
    /\ ret.body.unmatched_labels = <<args.items[2].label>>

\* C10: the total kcal of a meal is the sum of the kcal of its items, each
\* rounded to an integer on its own: for compute_total_macros the sum of the
\* kcal compute_macros gives each item, for POST /meals the sum of the stored
\* kcal; [white rice 180 g, chicken breast 150 g] gives 234 + 248 = 482.
C10_TotalOfRoundedItems ==
    /\ (op = "compute_total_macros" /\ ret.raised = "none")
        => /\ ret.value.kcal =
                kcal_sum([k \in 1..Len(args.items) |->
                            compute_macros_table[args.items[k].label][
                                args.items[k].grams].value])
           /\ args.items = <<[label |-> <<"w", "h", "i", "t", "e", " ",
                                          "r", "i", "c", "e">>, grams |-> 180],
                             [label |-> <<"c", "h", "i", "c", "k", "e",
                                          "n", " ", "b", "r", "e", "a", "s",
                                          "t">>, grams |-> 150]>>
                => ret.value.kcal = 482
    /\ (op = "POST /meals" /\ ret.raised = "none")
        => /\ ret.body.total_kcal = kcal_sum(saved_meal.items)
           /\ ( /\ Len(args.items) = 2
                /\ args.items[1].label = <<"w", "h", "i", "t", "e", " ",
                                           "r", "i", "c", "e">>
                /\ args.items[1].grams = 180
                /\ args.items[2].label = <<"c", "h", "i", "c", "k", "e",
                                           "n", " ", "b", "r", "e", "a", "s",
                                           "t">>
                /\ args.items[2].grams = 150 )
                => /\ saved_meal.items[1].kcal = 234
                   /\ saved_meal.items[2].kcal = 248
                   /\ ret.body.total_kcal = 482

\* the meal of the test suite, saved through the route
C10_Witness ==
    /\ op = "POST /meals" /\ ret.raised = "none"
    /\ Len(args.items) = 2
    /\ args.items[1].label = <<"w", "h", "i", "t", "e", " ", "r", "i", "c",
                               "e">>
    /\ args.items[1].grams = 180
    /\ args.items[2].label = <<"c", "h", "i", "c", "k", "e", "n", " ", "b",
                               "r", "e", "a", "s", "t">>
    /\ args.items[2].grams = 150
    /\ ret.body.total_kcal = 482

\* C23: on a store that has foods, get_food_fuzzy of a label that is empty
\* or all blanks never returns None: it returns the first food get_all_foods
\* lists; and POST /meals stores an item with such a label under that food's
\* id, with the macros compute_macros_from_food gives for that food and the
\* item's grams, and does not report the label as unmatched.
C23_blank(label) == \A i \in 1..Len(label) : label[i] = " "

C23_BlankLabelIsFirstFood ==
    /\ (op = "get_food_fuzzy" /\ C23_blank(args.label)
            /\ get_all_foods(database) # <<>>)
        => /\ ret # None
           /\ ret = get_all_foods(database)[1]
    /\ (op = "POST /meals" /\ ret.raised = "none"
            /\ get_all_foods(database) # <<>>)
        => \A k \in 1..Len(args.items) :
            C23_blank(args.items[k].label)
            => LET st == saved_meal.items[k]
                   first == get_all_foods(database)[1]
               IN  /\ st.food_id = first.food_id
                   /\ [kcal |-> st.kcal, protein_g |-> st.protein_g,
                       carbs_g |-> st.carbs_g, fat_g |-> st.fat_g]
                        = compute_macros_from_food(first,
                                                   args.items[k].grams)
                   /\ ~is_in(ret.body.unmatched_labels, args.items[k].label)

\* a saved meal of an unknown dish and a blank label on Firestore, whose
\* first document is not the first food seeded
C23_Witness ==
    /\ op = "POST /meals" /\ ret.raised = "none"
    /\ database.backend = "firestore"
    /\ Len(args.items) = 2
    /\ args.items[2].label = <<" ", " ">>
    /\ saved_meal.items[2].food_id = get_all_foods(database)[1].food_id
    /\ saved_meal.items[2].food_id # database.foods[1].food_id
    /\ saved_meal.items[2].kcal > 0 /\ args.items[2].macros.kcal = 0
    /\ ret.body.unmatched_labels = <<args.items[1].label>>

-----------------------------------------------------------------------------
(* Properties of the read path *)

\* the stored meal of the given meal_id
meal_of(meal_id) ==
    database.meals[CHOOSE k \in 1..Len(database.meals) :
                        database.meals[k].meal_id = meal_id]

\* C11: the items get_meals_by_date reports for a meal are the stored ones,
\* the kcal GET /meals/today reports are the sums of the stored kcal, and no
\* operation changes a meal once it is stored: what is read of a meal is
\* what was stored when it was saved, also after the food store has changed.
C11_SnapshotKept ==
    /\ [](op = "get_meals_by_date"
            => \A m \in 1..Len(ret.value) :
                    /\ \E k \in 1..Len(database.meals) :
                            database.meals[k].meal_id = ret.value[m].meal_id
                    /\ ret.value[m].items = meal_of(ret.value[m].meal_id).items)
    /\ [](op = "GET /meals/today"
            => /\ \A m \in 1..Len(ret.meals) :
                    ret.meals[m].total_kcal =
                        kcal_sum(meal_of(ret.meals[m].meal_id).items)
               /\ ret.total_kcal =
                    int_sum([m \in 1..Len(ret.meals) |->
                                kcal_sum(meal_of(ret.meals[m].meal_id).items)]))
    /\ [][\A k \in 1..Len(database.meals) :
                /\ k <= Len(database'.meals)
                /\ database'.meals[k] = database.meals[k]]_vars

\* a meal saved with an item "pizza" that resolved to nothing, read after a
\* food of that name was seeded: the item still has the macros of the client
C11_Witness ==
    /\ op = "get_meals_by_date"
    /\ \E m \in 1..Len(ret.value) :
            /\ Len(ret.value[m].items) = 2
            /\ ret.value[m].items[2].label = <<"p", "i", "z", "z", "a">>
            /\ ret.value[m].items[2].food_id = "unknown"
            /\ ret.value[m].items[2].kcal = 399
    /\ get_food_fuzzy_table[store(database)][<<"p", "i", "z", "z", "a">>]
            # None
    /\ compute_macros_from_food_table[
            get_food_fuzzy_table[store(database)][<<"p", "i", "z", "z", "a">>]
          ][150].kcal = 405

\* the UTC calendar date of a stored timestamp <<date, "T", time, offset>>:
\* the date written when there is no offset; with the offset +08:00 and a
\* time before 08:00 the day before the date written
C12_utc_date(timestamp) ==
    IF timestamp[4] = "+08:00" /\ timestamp[3] = "07:45:00"
            /\ timestamp[1] = "2025-03-01"
    THEN "2025-02-28"
    ELSE timestamp[1]

\* C12: GET /meals/today lists a stored meal if and only if the UTC calendar
\* date of its timestamp is the current UTC date (today_str, the server
\* running in UTC), whether the server or the client gave the timestamp.
C12_UtcDay ==
    op = "GET /meals/today"
    => \A k \in 1..Len(database.meals) :
            (\E m \in 1..Len(ret.meals) :
                ret.meals[m].meal_id = database.meals[k].meal_id)
            <=> C12_utc_date(database.meals[k].timestamp) = args.today_str

\* C13: when no stored meal has the date asked for, GET /meals/today
\* answers with total_kcal, the three macro totals and meal_count all 0 and
\* with an empty meal list.
C13_NoMealsAllZero ==
    (op = "GET /meals/today"
        /\ \A k \in 1..Len(database.meals) :
                database.meals[k].date_str # args.today_str)
    => ret = [total_kcal |-> 0, total_protein_g |-> 0, total_carbs_g |-> 0,
              total_fat_g |-> 0, meal_count |-> 0, meals |-> <<>>]

\* two meals are stored, both of the day before, and none is reported
C13_Witness ==
    /\ op = "GET /meals/today"
    /\ Len(database.meals) = 2
    /\ \A k \in 1..Len(database.meals) :
            /\ database.meals[k].date_str # args.today_str
            /\ database.meals[k].items # <<>>
    /\ ret.meal_count = 0 /\ ret.meals = <<>> /\ ret.total_kcal = 0

\* C14: every stored meal has at least one item.
C14_MealOwnsItems ==
    \A k \in 1..Len(database.meals) : database.meals[k].items # <<>>

\* C21: a POST /meals (a step that draws a meal id) that is answered "saved"
\* has stored its meal in that step, under an id that was not stored before;
\* a request whose storage call failed raises and has no response body; a
\* stored id never leaves the store.  So every meal id reported as saved is
\* a stored one.
C21_SavedAfterStored ==
    /\ [](op = "POST /meals"
            => /\ ret.raised = "none"
                    => /\ ret.body.status = "saved"
                       /\ \E k \in 1..Len(database.meals) :
                            database.meals[k].meal_id = ret.body.meal_id
               /\ ret.raised # "none" => ret.body = None)
    /\ [][(issued' # issued /\ op' = "POST /meals" /\ ret'.raised = "none")
            => /\ Len(database'.meals) = Len(database.meals) + 1
               /\ \A k \in 1..Len(database.meals) :
                    database.meals[k].meal_id # ret'.body.meal_id]_vars
    /\ [][\A k \in 1..Len(database.meals) :
            \E j \in 1..Len(database'.meals) :
                database'.meals[j].meal_id = database.meals[k].meal_id]_vars

\* a request failed in the storage engine after another was saved: it has no
\* response, and the store holds the one meal that was reported
C21_Witness ==
    /\ op = "POST /meals" /\ ret.raised = "StorageError" /\ ret.body = None
    /\ issued = 2 /\ Len(database.meals) = 1

\* C22: every meal listed by GET /meals/today was saved by a POST /meals
\* that answered "saved", and the item_count and total_kcal of its summary are
\* the item_count and total_kcal of that answer, on either backend and
\* whatever was saved before or after it.
C22_RoundTrip ==
    op = "GET /meals/today"
    => \A m \in 1..Len(ret.meals) :
        /\ \E k \in 1..Len(reported) :
                reported[k].meal_id = ret.meals[m].meal_id
        /\ \A k \in 1..Len(reported) :
                reported[k].meal_id = ret.meals[m].meal_id
                => /\ ret.meals[m].item_count = reported[k].item_count
                   /\ ret.meals[m].total_kcal = reported[k].total_kcal

C22_Witness ==
    /\ op = "GET /meals/today"
    /\ Len(reported) = 2 /\ Len(ret.meals) = 2
    /\ \E m \in 1..2 : \E k \in 1..2 :
            /\ reported[k].meal_id = ret.meals[m].meal_id
            /\ ret.meals[m].item_count = 2
            /\ ret.meals[m].total_kcal = reported[k].total_kcal
            /\ ret.meals[m].total_kcal > 0
            /\ reported[k].unmatched_labels # <<>>

-----------------------------------------------------------------------------
(* Properties of the storage backends *)

\* a food or a meal without the key "id" of the document store
C15_plain(x) == [key \in (DOMAIN x) \ {"id"} |-> x[key]]

\* two result lists with the same foods or meals, in whatever order
C15_same(xs, ys) ==
    /\ Len(xs) = Len(ys)
    /\ {C15_plain(xs[i]) : i \in 1..Len(xs)}
            = {C15_plain(ys[i]) : i \in 1..Len(ys)}

-----------------------------------------------------------------------------
(* Properties of the verification script *)

\* C16: main() returns 1 whenever pubspec.yaml gives no version or the
\* Android or iOS configuration does not follow it, and returns 0 only when
\* the version is there, the application id is the one of app_config.yaml
\* and Info.plist takes its version from the Flutter variables.
C16_VersionChecked ==
    op = "verify_sync"
    => /\ ret \in {0, 1}
       /\ read_pubspec_version(args.pubspec) = <<NoValue, NoValue>>
            => ret = 1
       /\ ~read_ios_config(args.plist).uses_flutter_vars => ret = 1
       /\ ret = 0
            => /\ read_pubspec_version(args.pubspec) # <<NoValue, NoValue>>
               /\ read_android_config(args.gradle).app_id
                    = app_config_get(args.app_config, "package_name")

\* the food_ids of a list of foods
C19_ids(foods) == {foods[i].food_id : i \in 1..Len(foods)}

\* what one call of seed_foods(foods) that returned inserted made of the
\* foods stored before: the stored foods are kept as they were, each id of
\* the list that was absent is stored once, with the values of the first food
\* of the list that has it, and inserted is the number of foods added
C19_seeded(before, after, foods, inserted) ==
    /\ Len(after) >= Len(before)
    /\ \A i \in 1..Len(before) : after[i] = before[i]
    /\ C19_ids(after) = C19_ids(before) \cup C19_ids(foods)
    /\ \A i, j \in 1..Len(after) :
            after[i].food_id = after[j].food_id => i = j
    /\ \A i \in (Len(before) + 1)..Len(after) :
            \E k \in 1..Len(foods) :
                /\ after[i] = foods[k]
                /\ \A j \in 1..(k - 1) : foods[j].food_id # foods[k].food_id
    /\ inserted = Len(after) - Len(before)

\* C19: on both backends seed_foods inserts exactly the foods of the list
\* whose food_id is absent, overwrites no stored food and returns the number
\* inserted; the same call made again at once returns 0 and changes nothing;
\* a startup seeds the foods if and only if the store holds no food.
C19_SeedingIdempotent ==
    /\ [][op' = "seed_foods"
            => /\ C19_seeded(database.foods, database'.foods, args'.foods,
                             ret'.value)
               /\ C19_seeded(mirror.foods, mirror'.foods, args'.foods,
                             ret'.mirrored)]_vars
    /\ [][(op = "seed_foods" /\ op' = "seed_foods" /\ args' = args)
            => /\ ret' = [value |-> 0, mirrored |-> 0]
               /\ database' = database /\ mirror' = mirror]_vars
    /\ [][op' = "lifespan"
            => /\ ret'.value <=> Len(database.foods) = 0
               /\ Len(database.foods) # 0 => database' = database
               /\ Len(database.foods) = 0
                    => C19_seeded(<<>>, database'.foods, _seed_data,
                                  Len(_seed_data))]_vars

\* a list with a stored id under other values, and a new food twice, has
\* been seeded: one food was inserted, the stored apple has kept its 52 kcal
C19_Witness ==
    /\ op = "seed_foods" /\ ret.value = 1 /\ Len(args.foods) = 3
    /\ args.foods[1].food_id = "apple" /\ args.foods[1].kcal_per_100g = 99
    /\ \E i \in 1..Len(database.foods) :
            /\ database.foods[i].food_id = "apple"
            /\ database.foods[i].kcal_per_100g = 52
    /\ Cardinality({i \in 1..Len(database.foods) :
                        database.foods[i].food_id = "pizza"}) = 1

\* the sum of the counts the instances of the set have so far
RECURSIVE C20_inserted(_)
C20_inserted(instances) ==
    IF instances = {} THEN 0
    ELSE LET i == CHOOSE i \in instances : TRUE
         IN  seeders[i].inserted + C20_inserted(instances \ {i})

\* C20: when the instances have finished their startup on the document
\* store, the counts their seed_foods calls returned sum to the number of
\* food documents created, and no food_id is stored twice.
C20_CountsAddUp ==
    (DOMAIN seeders # {} /\ \A i \in DOMAIN seeders : seeders[i].pc = "done")
    => /\ C20_inserted(DOMAIN seeders) = Len(database.foods)
       /\ \A j, k \in 1..Len(database.foods) :
                database.foods[j].food_id = database.foods[k].food_id
                => j = k

=============================================================================
